---- MODULE Spec2Model ----
(***************************************************************************)
(* NinjaRobotV2: the movement controller (src/src/ninja_robot/movement.py) *)
(* as a state machine.  A caller context runs the public operations        *)
(* (stop, the six gait starts, set_obstacle_callback); every gait start    *)
(* launches a gait loop on a background thread.  Each operation and each   *)
(* gait loop is written down as the sequence of its shared-state steps     *)
(* (event set/clear/read, join, lock acquire/release, servo write, sleep,  *)
(* obstacle check) and executed one step at a time, so that every          *)
(* interleaving of the caller with the gait threads is explored.           *)
(* A servo write is followed through the calibration mapping (with the     *)
(* float arithmetic of _map_angle), the duty conversion and the board      *)
(* driver (hat_driver.py); the brain (brain.py) that assembles controller  *)
(* and sensors, and the obstacle predicate it installs, have their own     *)
(* specification.                                                          *)
(***************************************************************************)
EXTENDS Integers, Sequences, FiniteSets, TLC

\* ------------------------------------------------------------------------
\* Configuration (config.py) and input domains
\* ------------------------------------------------------------------------
SERVO_LEFT_LEG_CHANNEL == 0
SERVO_RIGHT_LEG_CHANNEL == 1
SERVO_LEFT_FOOT_CHANNEL == 2
SERVO_RIGHT_FOOT_CHANNEL == 3

Channels == {SERVO_LEFT_LEG_CHANNEL, SERVO_RIGHT_LEG_CHANNEL,
             SERVO_LEFT_FOOT_CHANNEL, SERVO_RIGHT_FOOT_CHANNEL}

\* Gait threads that can exist at the same time (a thread slot is reused
\* once its thread has exited).
MaxThreads == 2

\* Operations the callers begin in one behaviour.
MaxCalls == 2

\* Legacy core: movement and distance-checker threads that can exist at
\* once, and actions the main thread executes.
MaxMovers == 2
MaxCheckers == 2
MaxActions == 2

\* Where the per-thread counters of iterations and foot-write pairs stop
\* counting.
MaxCount == 2

Threads == 1..MaxThreads
\* the contexts that call the controller: one, or the web request handler
\* and the voice loop, which both reach execute_command
OneCaller == {1}
\* 1 is a web request handler, 2 the voice loop
TwoCallers == {1, 2}

Speeds == {"slow", "normal", "fast"}

\* Obstacle predicates a caller may install: "sensor" answers true or false
\* from one call to the next, "always" answers true on every call.
Predicates == {"sensor", "always"}

\* Calibration values a key of an entry may hold (servo_calibration.json),
\* and the entries: any of the keys may be missing.
Keys == {"min", "center", "max"}
MinValues == {-50, 0, 70}
CenterValues == {45, 90, 95}
MaxValues == {90, 150, 180}

KeyValues(key) ==
    IF key = "min" THEN MinValues
    ELSE IF key = "center" THEN CenterValues ELSE MaxValues

Entries ==
    UNION {{cal \in [present -> MinValues \cup CenterValues \cup MaxValues] :
              \A key \in present : cal[key] \in KeyValues(key)} :
           present \in SUBSET Keys}

\* The calibration tables: no file, or an entry for one channel.
NoCalibration == [channel \in {} |-> 0]
CalibrationTables ==
    {NoCalibration} \cup {channel :> cal : channel \in Channels, cal \in Entries}

\* move_servo is called with angles this far outside 0..180.
AngleSlack == 2
Angles == (0 - AngleSlack)..(180 + AngleSlack)

\* Process identities (lock owners)
CallerId(c) == <<"caller", c>>
ThreadId(t) == <<"thread", t>>
NoOwner == <<"none", 0>>

VARIABLES
    stop_event,         \* self._stop_event (threading.Event): TRUE = set
    movement_thread,    \* self._movement_thread: 0 = None, else a thread slot
    lock,               \* self._lock (threading.RLock): [owner, count]
    obstacle_callback,  \* self.obstacle_callback: "none" or a predicate
    board,              \* last commanded logical angle of each channel
    thread,             \* the gait threads: [gait, speed, pc, cb, owed]
    caller,             \* the caller contexts: [op, gait, speed, pc, pre, log]
    calls,              \* number of operations the callers have begun
    calibration_data,   \* self.calibration_data: channel -> {min, center, max}
    i2c,                \* the I2C bus to the board: "ok" or "faulty"
    pwm,                \* the board: [begin, enabled, freq, result]
    servo,              \* a direct call of move_servo: input, board calls, outcome
    brain,              \* RobotBrain: [initialized, movement, sensors, ...]
    legacy              \* ninja_core's globals and its threads

vars == <<stop_event, movement_thread, lock, obstacle_callback, board,
          thread, caller, calls, legacy, calibration_data, i2c, pwm, servo, brain>>

\* what no operation of a constructed controller assigns
surroundings == <<legacy, calibration_data, i2c, servo, brain>>

\* ------------------------------------------------------------------------
\* Speed tiers
\* ------------------------------------------------------------------------
\* _get_walk_params: (step_delay, foot_delay, lift_adj); delays in 1/100 s
_get_walk_params(speed) ==
    IF speed = "fast" THEN <<15, 30, 5>>
    ELSE IF speed = "slow" THEN <<40, 70, -5>>
    ELSE <<25, 50, 0>>

\* Run offsets that reach past the servo range at the fast tier.
_get_run_params_wide(speed) ==
    IF speed = "fast" THEN 100
    ELSE IF speed = "slow" THEN 15
    ELSE 25

_get_run_params(speed) ==
    IF speed = "fast" THEN 40
    ELSE IF speed = "slow" THEN 15
    ELSE 25

\* ------------------------------------------------------------------------
\* Steps.  nx is the offset to the next step when the step does not branch
\* away; a step that leaves a gait loop (break, or the while test failing)
\* ends the thread.
\* ------------------------------------------------------------------------
Ins(op, ch, arg, nx) ==
    [op |-> op, ch |-> ch, arg |-> arg, nx |-> nx, fn |-> "body"]

Acq          == Ins("acq", 0, 0, 1)        \* with self._lock: (enter)
Rel          == Ins("rel", 0, 0, 1)        \* with self._lock: (leave)
W(ch, angle) == Ins("w", ch, angle, 1)     \* self.move_servo(ch, angle)
Sleep(d)     == Ins("sleep", 0, d, 1)      \* time.sleep(d / 100)
Chk          == Ins("chk", 0, 0, 1)        \* if stop_event.is_set(): break
While        == Ins("chk", 0, 1, 1)        \* while not stop_event.is_set():
ObsGuard(n)  == Ins("obsg", 0, 0, n)       \* if self.obstacle_callback ...
ObsCall(n)   == Ins("obsc", 0, 0, n)       \* ... and self.obstacle_callback():
SetEv        == Ins("set", 0, 0, 1)        \* self._stop_event.set()
Join         == Ins("join", 0, 0, 1)       \* movement_thread.join(timeout=2.0)
ClearEv      == Ins("clear", 0, 0, 1)      \* self._stop_event.clear()
NewThread    == Ins("new", 0, 0, 1)        \* self._movement_thread = Thread(..)
StartThread  == Ins("start", 0, 0, 1)      \* self._movement_thread.start()

\* The last step of body continues k steps back (the loop's while test).
BackTo(body, k) ==
    [i \in 1..Len(body) |->
        IF i = Len(body) THEN [body[i] EXCEPT !.nx = 0 - k] ELSE body[i]]

\* The last step of seq ends the thread (break out of the gait loop).
ThenBreak(seq) ==
    [i \in 1..Len(seq) |->
        IF i = Len(seq) THEN [seq[i] EXCEPT !.nx = 1000] ELSE seq[i]]

\* The steps of seq, marked as steps of function fn.
In(fn, seq) == [i \in 1..Len(seq) |-> [seq[i] EXCEPT !.fn = fn]]

\* reset_servos: all four channels to 90, settle 0.5 s, all under the lock
reset_servos ==
    In("reset_servos",
       <<Acq,
         W(SERVO_LEFT_LEG_CHANNEL, 90),
         W(SERVO_RIGHT_LEG_CHANNEL, 90),
         W(SERVO_LEFT_FOOT_CHANNEL, 90),
         W(SERVO_RIGHT_FOOT_CHANNEL, 90),
         Sleep(50),
         Rel>>)

\* A stop that returns after the join, leaving the servos where they are.
stop_without_reset == <<SetEv, Join>>

\* A stop that clears the event again once it has reset the servos.
stop_then_clear == <<SetEv, Join, Acq>> \o reset_servos \o <<Rel, ClearEv>>

\* stop: set the event, bounded join, reset under the (re-entrant) lock
stop == <<SetEv, Join, Acq>> \o reset_servos \o <<Rel>>

\* A start that clears the event before stopping the previous gait.
_start_thread_clear_first == <<ClearEv>> \o stop \o <<NewThread, StartThread>>

\* _start_thread: stop, clear the event, create and start the gait thread
_start_thread == stop \o <<ClearEv, NewThread, StartThread>>

\* rest: stop, then the resting pose under the lock, settle 1 s
rest ==
    stop
    \o <<Acq,
         W(SERVO_LEFT_LEG_CHANNEL, 0),
         W(SERVO_RIGHT_LEG_CHANNEL, 180),
         W(SERVO_LEFT_FOOT_CHANNEL, 90),
         W(SERVO_RIGHT_FOOT_CHANNEL, 90),
         Sleep(100),
         Rel>>

\* A left turn step that goes straight to its first phase, without stop().
turn_left_step_without_stop(speed) ==
    LET params == _get_walk_params(speed)
    IN <<Acq, W(SERVO_LEFT_LEG_CHANNEL, 125 - params[3]), Rel,
         Sleep(params[1]),
         Acq, W(SERVO_LEFT_FOOT_CHANNEL, 120),
              W(SERVO_RIGHT_FOOT_CHANNEL, 120), Rel,
         Sleep(params[2]),
         Acq, W(SERVO_LEFT_FOOT_CHANNEL, 90),
              W(SERVO_RIGHT_FOOT_CHANNEL, 90),
              W(SERVO_LEFT_LEG_CHANNEL, 90), Rel,
         Sleep(params[1])>>

\* turn_left_step: stop, then lift the left leg, turn both feet to 120, feet
\* back to 90 and the leg down; each phase under the lock, a sleep after each
turn_left_step(speed) ==
    LET params == _get_walk_params(speed)
    IN stop
       \o <<Acq, W(SERVO_LEFT_LEG_CHANNEL, 125 - params[3]), Rel,
            Sleep(params[1]),
            Acq, W(SERVO_LEFT_FOOT_CHANNEL, 120),
                 W(SERVO_RIGHT_FOOT_CHANNEL, 120), Rel,
            Sleep(params[2]),
            Acq, W(SERVO_LEFT_FOOT_CHANNEL, 90),
                 W(SERVO_RIGHT_FOOT_CHANNEL, 90),
                 W(SERVO_LEFT_LEG_CHANNEL, 90), Rel,
            Sleep(params[1])>>

\* turn_right_step: stop, then lift the right leg, turn both feet to 60, feet
\* back to 90 and the leg down at 105
turn_right_step(speed) ==
    LET params == _get_walk_params(speed)
    IN stop
       \o <<Acq, W(SERVO_RIGHT_LEG_CHANNEL, 70 + params[3]), Rel,
            Sleep(params[1]),
            Acq, W(SERVO_LEFT_FOOT_CHANNEL, 60),
                 W(SERVO_RIGHT_FOOT_CHANNEL, 60), Rel,
            Sleep(params[2]),
            Acq, W(SERVO_LEFT_FOOT_CHANNEL, 90),
                 W(SERVO_RIGHT_FOOT_CHANNEL, 90),
                 W(SERVO_RIGHT_LEG_CHANNEL, 105), Rel,
            Sleep(params[1])>>

\* for angle in range(first, first + n * step, step):
\*     move_servo(ch, angle); time.sleep(wave_speed)
Sweep(ch, first, step, n) ==
    [i \in 1..(2 * n) |->
        IF i % 2 = 1 THEN W(ch, first + ((i - 1) \div 2) * step) ELSE Sleep(1)]

\* hello: stop, then under the lock: reset, raise both legs, wave the left
\* leg twice (105 down to 77, 75 up to 103), reset
hello ==
    LET wave == Sweep(SERVO_LEFT_LEG_CHANNEL, 105, -2, 15)
                \o Sweep(SERVO_LEFT_LEG_CHANNEL, 75, 2, 15)
    IN stop
       \o <<Acq>>
       \o reset_servos
       \o <<W(SERVO_RIGHT_LEG_CHANNEL, 120), Sleep(100),
            W(SERVO_LEFT_LEG_CHANNEL, 180), Sleep(100)>>
       \o wave \o wave
       \o <<Sleep(50)>>
       \o reset_servos
       \o <<Rel>>

\* if self.obstacle_callback and self.obstacle_callback():
\*     self.reset_servos(); break
ObstacleCheck ==
    <<ObsGuard(Len(reset_servos) + 2), ObsCall(Len(reset_servos) + 1)>>
        \o ThenBreak(reset_servos)

\* while not self._stop_event.is_set(): <body>
WhileLoop(body) == <<While>> \o BackTo(body, Len(body))

\* ------------------------------------------------------------------------
\* The gait loops
\* ------------------------------------------------------------------------
_walk_loop(speed) ==
    LET step_delay == _get_walk_params(speed)[1]
        foot_delay == _get_walk_params(speed)[2]
        lift_adj == _get_walk_params(speed)[3]
        s1 == SERVO_LEFT_LEG_CHANNEL
        s2 == SERVO_RIGHT_LEG_CHANNEL
        s3 == SERVO_LEFT_FOOT_CHANNEL
        s4 == SERVO_RIGHT_FOOT_CHANNEL
    IN WhileLoop(
        ObstacleCheck
        \o <<Acq, W(s1, 60 - lift_adj), Rel, Sleep(step_delay)>>
        \o <<Acq, W(s2, 150 + lift_adj), Rel, Sleep(step_delay)>>
        \o <<Chk>>
        \o <<Acq, W(s3, 110), W(s4, 70), Rel, Sleep(foot_delay)>>
        \o <<Acq, W(s3, 90), W(s4, 90), Rel>>
        \o <<Chk>>
        \o <<Acq, W(s1, 90), W(s2, 90), Rel, Sleep(step_delay)>>
        \o <<Chk>>
        \o <<Acq, W(s2, 120 + lift_adj), Rel, Sleep(step_delay)>>
        \o <<Acq, W(s1, 30 + lift_adj), Rel, Sleep(step_delay)>>
        \o <<Chk>>
        \o <<Acq, W(s3, 110), W(s4, 70), Rel, Sleep(foot_delay)>>
        \o <<Acq, W(s3, 90), W(s4, 90), Rel>>
        \o <<Chk>>
        \o <<Acq, W(s1, 90), W(s2, 90), Rel, Sleep(step_delay)>>)

_stepback_loop(speed) ==
    LET step_delay == _get_walk_params(speed)[1]
        foot_delay == _get_walk_params(speed)[2]
        lift_adj == _get_walk_params(speed)[3]
        s1 == SERVO_LEFT_LEG_CHANNEL
        s2 == SERVO_RIGHT_LEG_CHANNEL
        s3 == SERVO_LEFT_FOOT_CHANNEL
        s4 == SERVO_RIGHT_FOOT_CHANNEL
    IN WhileLoop(
        ObstacleCheck
        \o <<Acq, W(s2, 120 + lift_adj), Rel, Sleep(step_delay)>>
        \o <<Acq, W(s1, 30 + lift_adj), Rel, Sleep(step_delay)>>
        \o <<Chk>>
        \o <<Acq, W(s3, 70), W(s4, 110), Rel, Sleep(foot_delay)>>
        \o <<Acq, W(s3, 90), W(s4, 90), Rel>>
        \o <<Chk>>
        \o <<Acq, W(s1, 90), W(s2, 90), Rel, Sleep(step_delay)>>
        \o <<Chk>>
        \o <<Acq, W(s1, 60 - lift_adj), Rel, Sleep(step_delay)>>
        \o <<Acq, W(s2, 150 - lift_adj), Rel, Sleep(step_delay)>>
        \o <<Chk>>
        \o <<Acq, W(s3, 70), W(s4, 110), Rel, Sleep(foot_delay)>>
        \o <<Acq, W(s3, 90), W(s4, 90), Rel>>
        \o <<Chk>>
        \o <<Acq, W(s1, 90), W(s2, 90), Rel, Sleep(step_delay)>>)

\* A run loop that never consults the obstacle callback.
_run_loop_unchecked(speed) ==
    LET angle_offset == _get_run_params(speed)
        s1 == SERVO_LEFT_LEG_CHANNEL
        s2 == SERVO_RIGHT_LEG_CHANNEL
        s3 == SERVO_LEFT_FOOT_CHANNEL
        s4 == SERVO_RIGHT_FOOT_CHANNEL
        right_angle == 90 + angle_offset
        left_angle == 90 - angle_offset
    IN <<Acq, W(s1, 0), W(s2, 180), Rel, Sleep(50)>>
       \o WhileLoop(
            <<Acq, W(s3, right_angle), W(s4, left_angle), Rel, Sleep(10)>>)

_run_loop(speed) ==
    LET angle_offset == _get_run_params(speed)
        s1 == SERVO_LEFT_LEG_CHANNEL
        s2 == SERVO_RIGHT_LEG_CHANNEL
        s3 == SERVO_LEFT_FOOT_CHANNEL
        s4 == SERVO_RIGHT_FOOT_CHANNEL
        right_angle == 90 + angle_offset
        left_angle == 90 - angle_offset
    IN <<Acq, W(s1, 0), W(s2, 180), Rel, Sleep(50)>>
       \o WhileLoop(
            ObstacleCheck
            \o <<Acq, W(s3, right_angle), W(s4, left_angle), Rel, Sleep(10)>>)

\* A runback loop that writes the two feet in separate critical sections
\* with a cancellation check between them.
_runback_loop_split(speed) ==
    LET angle_offset == _get_run_params(speed)
        s1 == SERVO_LEFT_LEG_CHANNEL
        s2 == SERVO_RIGHT_LEG_CHANNEL
        s3 == SERVO_LEFT_FOOT_CHANNEL
        s4 == SERVO_RIGHT_FOOT_CHANNEL
        right_angle == 90 - angle_offset
        left_angle == 90 + angle_offset
    IN <<Acq, W(s1, 0), W(s2, 180), Rel, Sleep(50)>>
       \o WhileLoop(
            ObstacleCheck
            \o <<Acq, W(s3, right_angle), Rel, Chk,
                 Acq, W(s4, left_angle), Rel, Sleep(10)>>)

_runback_loop(speed) ==
    LET angle_offset == _get_run_params(speed)
        s1 == SERVO_LEFT_LEG_CHANNEL
        s2 == SERVO_RIGHT_LEG_CHANNEL
        s3 == SERVO_LEFT_FOOT_CHANNEL
        s4 == SERVO_RIGHT_FOOT_CHANNEL
        right_angle == 90 - angle_offset
        left_angle == 90 + angle_offset
    IN <<Acq, W(s1, 0), W(s2, 180), Rel, Sleep(50)>>
       \o WhileLoop(
            ObstacleCheck
            \o <<Acq, W(s3, right_angle), W(s4, left_angle), Rel, Sleep(10)>>)

_rotate_left_loop(speed) ==
    LET angle_offset == _get_run_params(speed)
        s1 == SERVO_LEFT_LEG_CHANNEL
        s2 == SERVO_RIGHT_LEG_CHANNEL
        s3 == SERVO_LEFT_FOOT_CHANNEL
        s4 == SERVO_RIGHT_FOOT_CHANNEL
        right_angle == 90 - angle_offset
        left_angle == 90 - angle_offset
    IN <<Acq, W(s1, 15), W(s2, 180), Rel, Sleep(50)>>
       \o WhileLoop(
            <<Acq, W(s3, right_angle), W(s4, left_angle), Rel, Sleep(10)>>
            \o <<Acq, W(s3, left_angle), W(s4, right_angle), Rel, Sleep(10)>>)

_rotate_right_loop(speed) ==
    LET angle_offset == _get_run_params(speed)
        s1 == SERVO_LEFT_LEG_CHANNEL
        s2 == SERVO_RIGHT_LEG_CHANNEL
        s3 == SERVO_LEFT_FOOT_CHANNEL
        s4 == SERVO_RIGHT_FOOT_CHANNEL
        right_angle == 90 + angle_offset
        left_angle == 90 + angle_offset
    IN <<Acq, W(s1, 15), W(s2, 180), Rel, Sleep(50)>>
       \o WhileLoop(
            <<Acq, W(s3, right_angle), W(s4, left_angle), Rel, Sleep(10)>>
            \o <<Acq, W(s3, left_angle), W(s4, right_angle), Rel, Sleep(10)>>)

\* walk / stepback / run / runback / rotate_left / rotate_right:
\* self._start_thread(self._<gait>_loop, (speed,))
GaitTarget(gait, speed) ==
    CASE gait = "walk" -> _walk_loop(speed)
      [] gait = "stepback" -> _stepback_loop(speed)
      [] gait = "run" -> _run_loop(speed)
      [] gait = "runback" -> _runback_loop(speed)
      [] gait = "rotate_left" -> _rotate_left_loop(speed)
      [] gait = "rotate_right" -> _rotate_right_loop(speed)

\* The step tables, evaluated once
GaitProgram == [g \in {"walk", "stepback", "run", "runback", "rotate_left",
                        "rotate_right"} |-> [s \in Speeds |-> GaitTarget(g, s)]]

\* A reset command that stops the gait first.
reset_command_stopping == stop

\* the brain's "reset" command: movement.reset_servos, nothing else
reset_command == reset_servos

\* RobotBrain.shutdown: movement.stop(); movement.reset_servos(); ...;
\* self._initialized = False
shutdown == stop \o reset_servos \o <<Ins("uninit", 0, 0, 1)>>

CallerProgram ==
    [op \in {"stop", "start", "rest", "hello", "reset", "shutdown"} |->
        CASE op = "stop" -> stop
          [] op = "start" -> _start_thread
          [] op = "rest" -> rest
          [] op = "hello" -> hello
          [] op = "reset" -> reset_command
          [] op = "shutdown" -> shutdown]

TurnSteps == {"turn_left_step", "turn_right_step"}

TurnProgram ==
    [op \in TurnSteps |->
        [s \in Speeds |->
            IF op = "turn_left_step" THEN turn_left_step(s)
            ELSE turn_right_step(s)]]

\* ------------------------------------------------------------------------
\* State
\* ------------------------------------------------------------------------
\* A gait thread: its target (gait, speed) and position pc (0: not started),
\* cb: the callback the obstacle guard of this iteration read.  Bookkeeping:
\*   owed  - stop() has set the event since this thread's last check of it
\*   tops  - loop iterations begun while the always-true predicate is installed
\*   pairs - foot-write pairs issued by the loop body while it is installed
\*   trace - what the thread did since it began its current loop iteration
\*           (before the first: since its launch): "top" the loop condition
\*           found the event clear, "chk" a later check did, "obs" the
\*           predicate was called, "w" a servo write, "sleep" a sleep
NoThread == [gait |-> "none", speed |-> "none", pc |-> 0, cb |-> "none",
             owed |-> FALSE, tops |-> 0, pairs |-> 0, trace |-> <<>>]

\* A caller context: the operation it is in, or made last, and its position
\* (past the end: the operation has returned; "idle": no operation, or the
\* last one was set_obstacle_callback).  Bookkeeping:
\*   snap - taken at the call when no gait thread is alive: <<board,
\*          stop_event, movement_thread, obstacle_callback>>; <<>> otherwise
\*   log  - the events of the operation so far
IdleCaller == [op |-> "idle", gait |-> "none", speed |-> "none", pc |-> 0,
               snap |-> <<>>, log |-> <<>>]

\* the board before the controller is constructed, and after __init__ has
\* begun it and enabled PWM at the servo frequency; result is what became
\* of the latest set_pwm_duty call
PwmOff == [begin |-> "none", enabled |-> FALSE, freq |-> 0, result |-> "none"]
PwmReady == [begin |-> "ok", enabled |-> TRUE, freq |-> 50, result |-> "none"]

\* no direct call of move_servo has been made
NoServoCall == [op |-> "none", channel |-> 0, angle |-> 0, bus |-> "ok",
                mapped_angle |-> 0, calls |-> <<>>, returned |-> "none"]

\* RobotBrain.__init__: nothing assembled; no call of initialize has
\* returned and the obstacle predicate has not been called
NoBrain == [initialized |-> FALSE, movement |-> "none", sensors |-> "none",
            returned |-> "none", checked |-> FALSE, sample |-> 0,
            answer |-> FALSE, command |-> "none", reply |-> "none"]

\* the brain after a successful initialize
AssembledBrain == [NoBrain EXCEPT !.initialized = TRUE,
                                  !.movement = "controller",
                                  !.sensors = "manager",
                                  !.returned = "true"]

\* ninja_core before any action: no thread, the three flags False
NoLegacy ==
    [is_continuous_moving |-> FALSE,
     keep_distance_checking |-> FALSE,
     stop_movement |-> FALSE,
     movement_thread |-> 0,
     distance_check_thread |-> 0,
     mover |-> [t \in 1..MaxMovers |->
                  [func |-> "none", pc |-> "none", stopped |-> FALSE]],
     checker |-> [k \in 1..MaxCheckers |->
                    [for |-> "none", pc |-> "none", dist |-> 0]],
     main |-> [move |-> "none", pc |-> "idle"],
     actions |-> 0]

Callers == DOMAIN caller
Free(t) == thread[t].gait = "none"          \* no Thread object in the slot
Alive(t) == thread[t].pc >= 1               \* Thread.is_alive()
AliveThreads == {t \in Threads : Alive(t)}
\* self._movement_thread and self._movement_thread.is_alive()
MovementThreadAlive ==
    IF movement_thread = 0 THEN FALSE ELSE Alive(movement_thread)
FreeSlot == CHOOSE t \in Threads : Free(t) /\ \A u \in Threads : u < t => ~Free(u)

ThreadProgram(t) == GaitProgram[thread[t].gait][thread[t].speed]
ThreadIns(t) == ThreadProgram(t)[thread[t].pc]
\* the steps of the operation caller c is in
CallerCode(c) ==
    IF caller[c].op \in TurnSteps
    THEN TurnProgram[caller[c].op][caller[c].speed]
    ELSE CallerProgram[caller[c].op]
CallerIns(c) == CallerCode(c)[caller[c].pc]
Busy(c) == caller[c].op # "idle" /\ caller[c].pc <= Len(CallerCode(c))
Returned(c) == caller[c].op # "idle" /\ caller[c].pc > Len(CallerCode(c))
ThreadAt(t, op) == Alive(t) /\ ThreadIns(t).op = op
CallerAt(c, op) == Busy(c) /\ CallerIns(c).op = op

Ev(e, ch, arg) == [e |-> e, ch |-> ch, arg |-> arg]

\* __init__: event clear, no thread, lock free, no callback; no servo has
\* been commanded yet (-1); PWM enabled at 50 Hz; no calibration file
Init ==
    /\ stop_event = FALSE
    /\ movement_thread = 0
    /\ lock = [owner |-> NoOwner, count |-> 0]
    /\ obstacle_callback = "none"
    /\ board = [ch \in Channels |-> -1]
    /\ thread = [t \in Threads |-> NoThread]
    /\ caller = [c \in OneCaller |-> IdleCaller]
    /\ calls = 0
    /\ calibration_data = NoCalibration
    /\ i2c = "ok"
    /\ pwm = PwmReady
    /\ servo = NoServoCall
    /\ brain = NoBrain
    /\ legacy = NoLegacy

\* ------------------------------------------------------------------------
\* Shared-state primitives
\* ------------------------------------------------------------------------
\* A plain lock: its holder waits for itself like anyone else.
LockAcquirePlain(id) ==
    /\ lock.owner = NoOwner
    /\ lock' = [owner |-> id, count |-> lock.count + 1]

\* RLock.acquire: free, or already held by the same context (re-entrant)
LockAcquire(id) ==
    /\ lock.owner \in {NoOwner, id}
    /\ lock' = [owner |-> id, count |-> lock.count + 1]

LockRelease(id) ==
    /\ lock.owner = id
    /\ lock' = IF lock.count = 1 THEN [owner |-> NoOwner, count |-> 0]
               ELSE [lock EXCEPT !.count = lock.count - 1]

\* ------------------------------------------------------------------------
\* Python float arithmetic (IEEE 754 binary64, round to nearest, ties to
\* even) on the values _map_angle computes: angle / 90.0, an int times that
\* ratio, an int plus that product, and int() of the sum
\* ------------------------------------------------------------------------
\* significant binary digits of a float
MantissaBits == 53

\* binary fraction digits carried: the ratio is at least 1/90 > 2^-7, so its
\* 53 significant digits end by digit 59
FracBits == 60
Digits == 1..FracBits

RECURSIVE BitLength(_)
BitLength(n) == IF n = 0 THEN 0 ELSE 1 + BitLength(n \div 2)

IsZero(frac) == \A i \in Digits : frac[i] = 0

\* the fraction digit that is the last of the 53 significant digits of
\* int.frac (0: the units digit)
LastKept(int, frac) ==
    IF int > 0 THEN MantissaBits - BitLength(int)
    ELSE IF IsZero(frac) THEN FracBits
    ELSE MantissaBits - 1
         + CHOOSE i \in Digits : frac[i] = 1 /\ \A j \in 1..(i - 1) : frac[j] = 0

\* int.frac, cut after digit k, plus one unit of digit k
AddUlp(int, frac, k) ==
    LET zeros == {z \in 1..k : frac[z] = 0}
        last == IF zeros = {} THEN 0
                ELSE CHOOSE m \in zeros : \A n \in zeros : n <= m
    IN [int |-> IF last = 0 THEN int + 1 ELSE int,
        frac |-> [i \in Digits |->
                    IF i < last THEN frac[i] ELSE IF i = last THEN 1 ELSE 0]]

\* the float nearest to (-1)^neg * int.frac
RoundToFloat(neg, int, frac) ==
    LET k == LastKept(int, frac)
        kept == [i \in Digits |-> IF i <= k THEN frac[i] ELSE 0]
        odd == IF k = 0 THEN int % 2 = 1 ELSE frac[k] = 1
        up == /\ frac[k + 1] = 1
              /\ odd \/ \E i \in (k + 2)..FracBits : frac[i] = 1
        mag == IF up THEN AddUlp(int, kept, k) ELSE [int |-> int, frac |-> kept]
    IN IF k >= FracBits THEN [neg |-> neg, int |-> int, frac |-> frac]
       ELSE [neg |-> neg, int |-> mag.int, frac |-> mag.frac]

\* 2^n and 2^n modulo d, by repeated squaring
RECURSIVE Pow2(_)
Pow2(n) ==
    IF n = 0 THEN 1
    ELSE IF n % 2 = 1 THEN 2 * Pow2(n - 1)
    ELSE LET h == Pow2(n \div 2) IN h * h

RECURSIVE Pow2Mod(_, _)
Pow2Mod(n, d) ==
    IF n = 0 THEN 1 % d
    ELSE IF n % 2 = 1 THEN (2 * Pow2Mod(n - 1, d)) % d
    ELSE LET h == Pow2Mod(n \div 2, d) IN (h * h) % d

\* binary digit i of r / d (0 <= r < d), and the remainder after n digits
QuotientDigit(r, d, i) == (2 * ((r * Pow2Mod(i - 1, d)) % d)) \div d
QuotientRem(r, d, n) == (r * Pow2Mod(n, d)) % d

\* x / 90.0 for 0 < x < 90
FloatDiv(x, d) ==
    LET lead == [i \in Digits |-> QuotientDigit(x, d, i)]
        k == LastKept(0, lead)
        rem == QuotientRem(x, d, k)
        kept == [i \in Digits |-> IF i <= k THEN lead[i] ELSE 0]
        up == \/ 2 * rem > d
              \/ 2 * rem = d /\ lead[k] = 1
        mag == IF up THEN AddUlp(0, kept, k) ELSE [int |-> 0, frac |-> kept]
    IN [neg |-> FALSE, int |-> mag.int, frac |-> mag.frac]

\* the fraction digits are multiplied in three pieces of ChunkBits digits so
\* that every intermediate product fits a 32-bit integer
ChunkBits == 20

\* the integer whose binary digits are frac[lo..hi]
RECURSIVE DigitsValue(_, _, _)
DigitsValue(frac, lo, hi) ==
    IF lo = hi THEN frac[lo]
    ELSE LET mid == (lo + hi) \div 2
         IN DigitsValue(frac, lo, mid) * Pow2(hi - mid)
            + DigitsValue(frac, mid + 1, hi)

\* the exact product of the fraction digits and n >= 0
TimesDigits(frac, n) ==
    LET size == Pow2(ChunkBits)
        p3 == DigitsValue(frac, 2 * ChunkBits + 1, 3 * ChunkBits) * n
        p2 == DigitsValue(frac, ChunkBits + 1, 2 * ChunkBits) * n + p3 \div size
        p1 == DigitsValue(frac, 1, ChunkBits) * n + p2 \div size
        piece == <<p1 % size, p2 % size, p3 % size>>
    IN [int |-> p1 \div size,
        frac |-> [i \in Digits |->
                    (piece[(i - 1) \div ChunkBits + 1]
                        \div Pow2(ChunkBits - 1 - ((i - 1) % ChunkBits))) % 2]]

\* n * x for an int n and a float 0 <= x < 1
FloatMul(n, x) ==
    LET abs == IF n < 0 THEN 0 - n ELSE n
        p == TimesDigits(x.frac, abs)
    IN RoundToFloat(n < 0, x.int * abs + p.int, p.frac)

\* 1 - 0.frac, for frac not zero
OneMinus(frac) ==
    LET last == CHOOSE m \in Digits :
                    frac[m] = 1 /\ \A n \in (m + 1)..FracBits : frac[n] = 0
    IN [i \in Digits |-> IF i < last THEN 1 - frac[i] ELSE frac[i]]

\* m + x for an int m and a float x
FloatAdd(m, x) ==
    LET abs == IF m < 0 THEN 0 - m ELSE m
    IN IF m = 0 THEN x
       ELSE IF x.neg = (m < 0) THEN RoundToFloat(x.neg, abs + x.int, x.frac)
       ELSE IF abs <= x.int THEN RoundToFloat(x.neg, x.int - abs, x.frac)
       ELSE IF IsZero(x.frac) THEN RoundToFloat(m < 0, abs - x.int, x.frac)
       ELSE RoundToFloat(m < 0, abs - x.int - 1, OneMinus(x.frac))

\* int(x): the integer part, toward zero
FloatToInt(x) == IF x.neg THEN 0 - x.int ELSE x.int

\* int(base + (top - base) * (x / 90.0))
Interpolate(base, top, x) ==
    FloatToInt(FloatAdd(base, FloatMul(top - base, FloatDiv(x, 90))))

\* the interpolations of the calibration values in use, computed once
InterpolateTable ==
    [base \in MinValues \cup CenterValues \cup {0, 90},
     top \in CenterValues \cup MaxValues \cup {90, 180},
     x \in 1..89 |-> Interpolate(base, top, x)]

\* ------------------------------------------------------------------------
\* move_servo: clamp, calibration mapping, duty, board write
\* ------------------------------------------------------------------------
\* cal.get(key, default)
Get(cal, key, default) == IF key \in DOMAIN cal THEN cal[key] ELSE default

\* _map_angle for a channel that has the calibration entry cal
Mapped(cal, angle) ==
    LET min_val == Get(cal, "min", 0)
        center_val == Get(cal, "center", 90)
        max_val == Get(cal, "max", 180)
    IN IF angle = 90 THEN center_val
       ELSE IF angle = 0 THEN min_val
       ELSE IF angle = 180 THEN max_val
       ELSE IF angle < 90 THEN InterpolateTable[min_val, center_val, angle]
       ELSE InterpolateTable[center_val, max_val, angle - 90]

\* A mapping whose upper half is scaled from min instead of center.
_map_angle_from_min(channel, angle) ==
    IF channel \notin DOMAIN calibration_data THEN angle
    ELSE IF angle > 90 /\ angle < 180
         THEN LET cal == calibration_data[channel]
              IN Mapped([min |-> Get(cal, "min", 0),
                         center |-> Get(cal, "min", 0),
                         max |-> Get(cal, "max", 180)], angle)
         ELSE Mapped(calibration_data[channel], angle)

_map_angle(channel, angle) ==
    IF channel \notin DOMAIN calibration_data THEN angle
    ELSE Mapped(calibration_data[channel], angle)

\* Duties are counted in eighteenths of a percent: the duty of an angle,
\* (0.5 + angle / 90) / 20 * 100 percent, is (45 + angle) / 18 percent.
DutyScale == 18

_angle_to_duty(angle) == 45 + angle

\* A bus write that lets the I2C error reach its caller.
_write_bytes_unguarded(bus) == IF bus = "error" THEN "raised" ELSE "written"

\* _write_bytes: the bus error is caught and logged
_write_bytes(bus) == IF bus = "error" THEN "io_error" ELSE "written"

\* set_pwm_duty: the call and what became of it
set_pwm_duty(channel, duty, bus) ==
    [channel |-> channel, duty |-> duty,
     result |-> IF ~(1 <= channel /\ channel <= 4) THEN "rejected"
                ELSE IF ~(0 <= duty /\ duty <= 100 * DutyScale) THEN "rejected"
                ELSE _write_bytes(bus)]

Clamp(angle) == IF angle < 0 THEN 0 ELSE IF angle > 180 THEN 180 ELSE angle

\* A move_servo that refuses an angle outside 0..180 with an error.
MovedRangeChecked(channel, angle, bus) ==
    IF angle < 0 \/ angle > 180
    THEN [mapped_angle |-> angle, calls |-> <<>>, raised |-> TRUE]
    ELSE LET mapped_angle == _map_angle(channel, angle)
             call == set_pwm_duty(channel + 1, _angle_to_duty(mapped_angle), bus)
         IN [mapped_angle |-> mapped_angle, calls |-> <<call>>,
             raised |-> call.result = "raised"]

\* A move_servo that clamps the calibrated angle to 0..180 as well.
MovedMappedClamped(channel, angle, bus) ==
    LET mapped_angle == Clamp(_map_angle(channel, Clamp(angle)))
        call == set_pwm_duty(channel + 1, _angle_to_duty(mapped_angle), bus)
    IN [mapped_angle |-> mapped_angle, calls |-> <<call>>,
        raised |-> call.result = "raised"]

\* one move_servo(channel, angle): the mapped angle, the board calls in
\* order, and whether an error leaves it
Moved(channel, angle, bus) ==
    LET mapped_angle == _map_angle(channel, Clamp(angle))
        call == set_pwm_duty(channel + 1, _angle_to_duty(mapped_angle), bus)
    IN [mapped_angle |-> mapped_angle, calls |-> <<call>>,
        raised |-> call.result = "raised"]

\* what a write can meet on the bus
BusOutcomes == IF i2c = "faulty" THEN {"ok", "error"} ELSE {"ok"}

\* move_servo: clamp, then one duty write to the channel
move_servo(channel, angle, bus) ==
    /\ board' = IF channel \in Channels
                THEN [board EXCEPT ![channel] = Clamp(angle)]
                ELSE board
    /\ pwm' = LET made == Moved(channel, angle, bus).calls
              IN IF made = <<>> THEN pwm
                 ELSE [pwm EXCEPT !.result = made[Len(made)].result]

\* the values a call of the predicate can return
Returns(pred) == IF pred = "always" THEN {TRUE} ELSE BOOLEAN

\* A thread's next position; past the end of its loop function it exits.
ThreadGoto(t, pc) ==
    IF pc > Len(ThreadProgram(t)) THEN NoThread
    ELSE [thread[t] EXCEPT !.pc = pc]

\* the bookkeeping of a step the thread has survived
Traced(th, events) ==
    IF th.pc = 0 THEN th ELSE [th EXCEPT !.trace = @ \o events]

CallerNext(c, events) ==
    caller' = [caller EXCEPT ![c].pc = caller[c].pc + 1,
                             ![c].log = caller[c].log \o events]

\* ------------------------------------------------------------------------
\* The caller's operations
\* ------------------------------------------------------------------------
CallFrame(c, op, gait, speed) ==
    /\ ~Busy(c)
    /\ calls < MaxCalls
    /\ calls' = calls + 1
    /\ caller' = [caller EXCEPT ![c] =
          [op |-> op, gait |-> gait, speed |-> speed, pc |-> 1,
           snap |-> IF AliveThreads = {}
                    THEN <<board, stop_event, movement_thread, obstacle_callback>>
                    ELSE <<>>,
           log |-> <<>>]]
    /\ UNCHANGED <<stop_event, movement_thread, lock, obstacle_callback, board,
                   thread, pwm>>

Call(c, op, gait, speed) ==
    /\ CallFrame(c, op, gait, speed)
    /\ UNCHANGED surroundings

CallStop(c) == Call(c, "stop", "none", "none")
CallRest(c) == Call(c, "rest", "none", "none")
CallHello(c) == Call(c, "hello", "none", "none")
CallReset(c) == Call(c, "reset", "none", "none")

\* A gait started while an earlier gait thread still exists uses that
\* thread's speed tier (the tiers of one behaviour's overlapping gaits are
\* not mixed); a turn step likewise.
SameTier(speed) == \A t \in Threads : ~Free(t) => thread[t].speed = speed

CallTurnLeftStep(c, speed) ==
    /\ SameTier(speed)
    /\ Call(c, "turn_left_step", "none", speed)

CallTurnRightStep(c, speed) ==
    /\ SameTier(speed)
    /\ Call(c, "turn_right_step", "none", speed)

StartGait(c, gait, speed) ==
    /\ \E t \in Threads : Free(t)
    /\ SameTier(speed)
    /\ Call(c, "start", gait, speed)

walk(c, speed) == StartGait(c, "walk", speed)
stepback(c, speed) == StartGait(c, "stepback", speed)
run(c, speed) == StartGait(c, "run", speed)
runback(c, speed) == StartGait(c, "runback", speed)
rotate_left(c, speed) == StartGait(c, "rotate_left", speed)
rotate_right(c, speed) == StartGait(c, "rotate_right", speed)

\* A replacement that first removes the installed predicate and stores the new
\* one only on a later call.
set_obstacle_callback_in_two_stores(c, callback) ==
    /\ ~Busy(c)
    /\ calls < MaxCalls
    /\ calls' = calls + 1
    /\ obstacle_callback' =
          IF obstacle_callback \in {"none", callback} THEN callback ELSE "none"
    /\ thread' = [t \in Threads |->
                    [thread[t] EXCEPT !.tops = 0, !.pairs = 0]]
    /\ caller' = [caller EXCEPT ![c] = IdleCaller]
    /\ UNCHANGED <<stop_event, movement_thread, lock, board,
                   pwm, surroundings>>

\* set_obstacle_callback: one attribute store
set_obstacle_callback(c, callback) ==
    /\ ~Busy(c)
    /\ calls < MaxCalls
    /\ calls' = calls + 1
    /\ obstacle_callback' = callback
    /\ thread' = [t \in Threads |->
                    IF callback = obstacle_callback THEN thread[t]
                    ELSE [thread[t] EXCEPT !.tops = 0, !.pairs = 0]]
    /\ caller' = [caller EXCEPT ![c] = IdleCaller]
    /\ UNCHANGED <<stop_event, movement_thread, lock, board,
                   pwm, surroundings>>

\* self._stop_event.set()
StopEventSet(c) ==
    /\ CallerAt(c, "set")
    /\ stop_event' = TRUE
    /\ thread' = [t \in Threads |->
                    IF Alive(t) THEN [thread[t] EXCEPT !.owed = TRUE]
                    ELSE thread[t]]
    /\ CallerNext(c, <<Ev("set", 0, 0)>>)
    /\ UNCHANGED <<movement_thread, lock, obstacle_callback, board, calls,
                   pwm, surroundings>>

\* if self._movement_thread and self._movement_thread.is_alive(): join(2.0)
\* - no thread, or the thread exits within the wait
JoinDone(c) ==
    /\ CallerAt(c, "join")
    /\ ~MovementThreadAlive
    /\ CallerNext(c, <<Ev("joined", 0, 0)>>)
    /\ UNCHANGED <<stop_event, movement_thread, lock, obstacle_callback, board,
                   thread, calls, pwm, surroundings>>

\* A join whose expiry is raised as an error that ends the operation.
JoinTimeoutRaises(c) ==
    /\ CallerAt(c, "join")
    /\ MovementThreadAlive
    /\ caller' = [caller EXCEPT
          ![c].pc = Len(CallerCode(c)) + 1,
          ![c].log = caller[c].log \o <<Ev("timeout", 0, 0)>>]
    /\ UNCHANGED <<stop_event, movement_thread, lock, obstacle_callback, board,
                   thread, calls, pwm, surroundings>>

\* - the wait expires with the thread still alive
JoinTimeout(c) ==
    /\ CallerAt(c, "join")
    /\ MovementThreadAlive
    /\ CallerNext(c, <<Ev("timeout", 0, 0)>>)
    /\ UNCHANGED <<stop_event, movement_thread, lock, obstacle_callback, board,
                   thread, calls, pwm, surroundings>>

CallerAcquire(c) ==
    /\ CallerAt(c, "acq")
    /\ LockAcquire(CallerId(c))
    /\ CallerNext(c, <<>>)
    /\ UNCHANGED <<stop_event, movement_thread, obstacle_callback, board,
                   thread, calls, pwm, surroundings>>

CallerRelease(c) ==
    /\ CallerAt(c, "rel")
    /\ LockRelease(CallerId(c))
    /\ CallerNext(c, <<>>)
    /\ UNCHANGED <<stop_event, movement_thread, obstacle_callback, board,
                   thread, calls, pwm, surroundings>>

\* an error leaving a with-block releases the lock on its way out
LockAfter(id, raised) ==
    IF raised /\ lock.owner = id THEN [owner |-> NoOwner, count |-> 0]
    ELSE lock

\* a servo write of an operation; an error from it would end the operation
CallerMoveServo(c) ==
    /\ CallerAt(c, "w")
    /\ \E bus \in BusOutcomes :
          LET raised == Moved(CallerIns(c).ch, CallerIns(c).arg, bus).raised
          IN /\ move_servo(CallerIns(c).ch, CallerIns(c).arg, bus)
             /\ lock' = LockAfter(CallerId(c), raised)
             /\ caller' = [caller EXCEPT
                   ![c].pc = IF raised THEN Len(CallerCode(c)) + 1
                             ELSE caller[c].pc + 1,
                   ![c].log = caller[c].log
                              \o <<Ev("w", CallerIns(c).ch, CallerIns(c).arg)>>]
    /\ UNCHANGED <<stop_event, movement_thread, obstacle_callback,
                   thread, calls, surroundings>>

CallerSleep(c) ==
    /\ CallerAt(c, "sleep")
    /\ CallerNext(c, <<>>)
    /\ UNCHANGED <<stop_event, movement_thread, lock, obstacle_callback, board,
                   thread, calls, pwm, surroundings>>

\* self._stop_event.clear()
StopEventClear(c) ==
    /\ CallerAt(c, "clear")
    /\ stop_event' = FALSE
    /\ CallerNext(c, <<Ev("clear", 0, 0)>>)
    /\ UNCHANGED <<movement_thread, lock, obstacle_callback, board, thread,
                   calls, pwm, surroundings>>

\* self._movement_thread = threading.Thread(target=..., args=(speed,))
CreateThread(c) ==
    /\ CallerAt(c, "new")
    /\ \E t \in Threads : Free(t)
    /\ movement_thread' = FreeSlot
    /\ thread' = [thread EXCEPT ![FreeSlot] =
          [NoThread EXCEPT !.gait = caller[c].gait, !.speed = caller[c].speed]]
    /\ CallerNext(c, <<Ev("new", FreeSlot, 0)>>)
    /\ UNCHANGED <<stop_event, lock, obstacle_callback, board, calls,
                   pwm, surroundings>>

\* self._movement_thread.start()
\* (a Thread can be started once: RuntimeError if it was started before)
LaunchThread(c) ==
    /\ CallerAt(c, "start")
    /\ IF ~Free(movement_thread) /\ ~Alive(movement_thread)
       THEN /\ thread' = [thread EXCEPT ![movement_thread].pc = 1]
            /\ CallerNext(c, <<Ev("start", movement_thread, 0)>>)
       ELSE /\ thread' = thread
            /\ CallerNext(c, <<Ev("error", movement_thread, 0)>>)
    /\ UNCHANGED <<stop_event, movement_thread, lock, obstacle_callback, board,
                   calls, pwm, surroundings>>

\* ------------------------------------------------------------------------
\* The gait thread's steps
\* ------------------------------------------------------------------------
GaitAcquire(t) ==
    /\ ThreadAt(t, "acq")
    /\ LockAcquire(ThreadId(t))
    /\ thread' = [thread EXCEPT ![t] = ThreadGoto(t, thread[t].pc + ThreadIns(t).nx)]
    /\ UNCHANGED <<stop_event, movement_thread, obstacle_callback, board,
                   caller, calls, pwm, surroundings>>

GaitRelease(t) ==
    /\ ThreadAt(t, "rel")
    /\ LockRelease(ThreadId(t))
    /\ thread' = [thread EXCEPT ![t] = ThreadGoto(t, thread[t].pc + ThreadIns(t).nx)]
    /\ UNCHANGED <<stop_event, movement_thread, obstacle_callback, board,
                   caller, calls, pwm, surroundings>>

\* a servo write of a gait loop; an error from it would end the thread
GaitMoveServo(t) ==
    /\ ThreadAt(t, "w")
    /\ \E bus \in BusOutcomes :
          LET raised == Moved(ThreadIns(t).ch, ThreadIns(t).arg, bus).raised
          IN /\ move_servo(ThreadIns(t).ch, ThreadIns(t).arg, bus)
             /\ lock' = LockAfter(ThreadId(t), raised)
             /\ thread' = [thread EXCEPT ![t] =
                   IF raised THEN NoThread
                   ELSE Traced(
                          [ThreadGoto(t, thread[t].pc + ThreadIns(t).nx)
                             EXCEPT !.pairs =
                               IF /\ obstacle_callback = "always"
                                  /\ ThreadIns(t).fn = "body"
                                  /\ ThreadIns(t).ch = SERVO_LEFT_FOOT_CHANNEL
                                  /\ thread[t].pairs < MaxCount
                                  /\ thread[t].pc + ThreadIns(t).nx
                                       <= Len(ThreadProgram(t))
                               THEN thread[t].pairs + 1 ELSE @],
                          <<Ev("w", ThreadIns(t).ch, ThreadIns(t).arg)>>)]
    /\ UNCHANGED <<stop_event, movement_thread, obstacle_callback,
                   caller, calls, surroundings>>

GaitSleep(t) ==
    /\ ThreadAt(t, "sleep")
    /\ thread' = [thread EXCEPT ![t] =
          Traced(ThreadGoto(t, thread[t].pc + ThreadIns(t).nx),
                 <<Ev("sleep", 0, ThreadIns(t).arg)>>)]
    /\ UNCHANGED <<stop_event, movement_thread, lock, obstacle_callback, board,
                   caller, calls, pwm, surroundings>>

\* A check that finds the event clear whatever its state.
GaitCheckStopBlind(t) ==
    /\ ThreadAt(t, "chk")
    /\ thread' = [thread EXCEPT ![t] =
          [thread[t] EXCEPT
              !.pc = thread[t].pc + ThreadIns(t).nx,
              !.owed = FALSE,
              !.trace = IF ThreadIns(t) = While
                        THEN <<Ev("top", 0, 0)>>
                        ELSE @ \o <<Ev("chk", 0, 0)>>]]
    /\ UNCHANGED <<stop_event, movement_thread, lock, obstacle_callback, board,
                   caller, calls, pwm, surroundings>>

\* while not self._stop_event.is_set():  /  if self._stop_event.is_set(): break
GaitCheckStop(t) ==
    /\ ThreadAt(t, "chk")
    /\ thread' = [thread EXCEPT ![t] =
          IF stop_event THEN NoThread
          ELSE [thread[t] EXCEPT
                  !.pc = thread[t].pc + ThreadIns(t).nx,
                  !.owed = FALSE,
                  !.trace = IF ThreadIns(t) = While
                            THEN <<Ev("top", 0, 0)>>
                            ELSE @ \o <<Ev("chk", 0, 0)>>,
                  !.tops = IF /\ ThreadIns(t) = While
                              /\ obstacle_callback = "always"
                              /\ thread[t].tops < MaxCount
                           THEN thread[t].tops + 1 ELSE @]]
    /\ UNCHANGED <<stop_event, movement_thread, lock, obstacle_callback, board,
                   caller, calls, pwm, surroundings>>

\* if self.obstacle_callback ...   (first read of the attribute)
GaitObstacleGuard(t) ==
    /\ ThreadAt(t, "obsg")
    /\ thread' = [thread EXCEPT ![t] =
          IF obstacle_callback # "none"
          THEN [thread[t] EXCEPT !.pc = thread[t].pc + 1,
                                 !.cb = obstacle_callback]
          ELSE [thread[t] EXCEPT !.pc = thread[t].pc + ThreadIns(t).nx]]
    /\ UNCHANGED <<stop_event, movement_thread, lock, obstacle_callback, board,
                   caller, calls, pwm, surroundings>>

\* An obstacle branch that also sets the stop event before it resets.
GaitObstacleCallSettingEvent(t) ==
    /\ ThreadAt(t, "obsc")
    /\ obstacle_callback # "none"
    /\ \E result \in Returns(obstacle_callback) :
          /\ thread' = [thread EXCEPT ![t] =
                IF result
                THEN [thread[t] EXCEPT !.pc = thread[t].pc + 1, !.cb = "none",
                                       !.trace = @ \o <<Ev("obs", 0, 0)>>]
                ELSE [thread[t] EXCEPT !.pc = thread[t].pc + ThreadIns(t).nx,
                                       !.cb = "none",
                                       !.trace = @ \o <<Ev("obs", 0, 0)>>]]
          /\ stop_event' = (stop_event \/ result)
    /\ UNCHANGED <<movement_thread, lock, obstacle_callback, board,
                   caller, calls, pwm, surroundings>>

\* ... and self.obstacle_callback():   (second read, then the call)
GaitObstacleCall(t) ==
    /\ ThreadAt(t, "obsc")
    /\ obstacle_callback # "none"
    /\ \E result \in Returns(obstacle_callback) :
          thread' = [thread EXCEPT ![t] =
              IF result
              THEN [thread[t] EXCEPT !.pc = thread[t].pc + 1, !.cb = "none",
                                     !.trace = @ \o <<Ev("obs", 0, 0)>>]
              ELSE [thread[t] EXCEPT !.pc = thread[t].pc + ThreadIns(t).nx,
                                     !.cb = "none",
                                     !.trace = @ \o <<Ev("obs", 0, 0)>>]]
    /\ UNCHANGED <<stop_event, movement_thread, lock, obstacle_callback, board,
                   caller, calls, pwm, surroundings>>

\* ------------------------------------------------------------------------
\* Specification: one caller context and the gait threads
\* ------------------------------------------------------------------------
CallerStep(c) ==
    \/ CallStop(c)
    \/ CallRest(c)
    \/ CallHello(c)
    \/ CallReset(c)
    \/ \E speed \in Speeds : CallTurnLeftStep(c, speed)
    \/ \E speed \in Speeds : CallTurnRightStep(c, speed)
    \/ \E speed \in Speeds : walk(c, speed)
    \/ \E speed \in Speeds : stepback(c, speed)
    \/ \E speed \in Speeds : run(c, speed)
    \/ \E speed \in Speeds : runback(c, speed)
    \/ \E speed \in Speeds : rotate_left(c, speed)
    \/ \E speed \in Speeds : rotate_right(c, speed)
    \/ \E callback \in Predicates : set_obstacle_callback(c, callback)
    \/ StopEventSet(c)
    \/ JoinDone(c)
    \/ JoinTimeout(c)
    \/ CallerAcquire(c)
    \/ CallerMoveServo(c)
    \/ CallerSleep(c)
    \/ CallerRelease(c)
    \/ StopEventClear(c)
    \/ CreateThread(c)
    \/ LaunchThread(c)

GaitStep(t) ==
    \/ GaitCheckStop(t)
    \/ GaitObstacleGuard(t)
    \/ GaitObstacleCall(t)
    \/ GaitAcquire(t)
    \/ GaitMoveServo(t)
    \/ GaitSleep(t)
    \/ GaitRelease(t)

Next ==
    \/ \E c \in OneCaller : CallerStep(c)
    \/ \E t \in Threads : GaitStep(t)

Spec == Init /\ [][Next]_vars

\* Two caller contexts of the assembled brain, each starting gaits, with the
\* robot standing in front of an obstacle (the installed predicate answers
\* true on every call); the gait threads answer the stop event within the wait
\* of the join, so that what happens here does not rest on an expired join.
InitTwoCallers ==
    /\ stop_event = FALSE
    /\ movement_thread = 0
    /\ lock = [owner |-> NoOwner, count |-> 0]
    /\ obstacle_callback = "always"
    /\ board = [ch \in Channels |-> -1]
    /\ thread = [t \in Threads |-> NoThread]
    /\ caller = [c \in TwoCallers |-> IdleCaller]
    /\ calls = 0
    /\ calibration_data = NoCalibration
    /\ i2c = "ok"
    /\ pwm = PwmReady
    /\ servo = NoServoCall
    /\ brain = AssembledBrain
    /\ legacy = NoLegacy

\* speed = params.get('speed', 'normal'): commands come without a speed
DefaultSpeed == "normal"

StartingCallerStep(c) ==
    \/ walk(c, DefaultSpeed)
    \/ stepback(c, DefaultSpeed)
    \/ run(c, DefaultSpeed)
    \/ runback(c, DefaultSpeed)
    \/ rotate_left(c, DefaultSpeed)
    \/ rotate_right(c, DefaultSpeed)
    \/ StopEventSet(c)
    \/ JoinDone(c)
    \/ CallerAcquire(c)
    \/ CallerMoveServo(c)
    \/ CallerSleep(c)
    \/ CallerRelease(c)
    \/ StopEventClear(c)
    \/ CreateThread(c)
    \/ LaunchThread(c)

NextTwoCallers ==
    \/ \E c \in TwoCallers : StartingCallerStep(c)
    \/ \E t \in Threads : GaitStep(t)

SpecTwoCallers == InitTwoCallers /\ [][NextTwoCallers]_vars

\* The same under fair scheduling: a gait thread that can take a step, and a
\* caller inside an operation that can take one, eventually does (the calls
\* themselves are left to the caller).
CallerProgress(c) ==
    \/ StopEventSet(c)
    \/ JoinDone(c)
    \/ JoinTimeout(c)
    \/ CallerAcquire(c)
    \/ CallerMoveServo(c)
    \/ CallerSleep(c)
    \/ CallerRelease(c)
    \/ StopEventClear(c)
    \/ CreateThread(c)
    \/ LaunchThread(c)

Fairness ==
    /\ \A t \in Threads : WF_vars(GaitStep(t))
    /\ \A c \in OneCaller : WF_vars(CallerProgress(c))

\* The caller starts gaits at execute_command's default speed, stops them and
\* strikes the poses.
FairCallerStep(c) ==
    \/ walk(c, DefaultSpeed)
    \/ stepback(c, DefaultSpeed)
    \/ run(c, DefaultSpeed)
    \/ runback(c, DefaultSpeed)
    \/ rotate_left(c, DefaultSpeed)
    \/ rotate_right(c, DefaultSpeed)
    \/ CallStop(c)
    \/ CallRest(c)
    \/ CallHello(c)
    \/ CallerProgress(c)

InitFair ==
    /\ stop_event = FALSE
    /\ movement_thread = 0
    /\ lock = [owner |-> NoOwner, count |-> 0]
    /\ obstacle_callback = "sensor"
    /\ board = [ch \in Channels |-> -1]
    /\ thread = [t \in Threads |-> NoThread]
    /\ caller = [c \in OneCaller |-> IdleCaller]
    /\ calls = 0
    /\ calibration_data = NoCalibration
    /\ i2c = "ok"
    /\ pwm = PwmReady
    /\ servo = NoServoCall
    /\ brain = NoBrain
    /\ legacy = NoLegacy

NextFair ==
    \/ \E c \in OneCaller : FairCallerStep(c)
    \/ \E t \in Threads : GaitStep(t)

SpecFair == InitFair /\ [][NextFair]_vars /\ Fairness

\* The controller as the robot's brain assembles it: an obstacle predicate is
\* installed before the first command.
InitAssembled ==
    /\ stop_event = FALSE
    /\ movement_thread = 0
    /\ lock = [owner |-> NoOwner, count |-> 0]
    /\ obstacle_callback \in Predicates
    /\ board = [ch \in Channels |-> -1]
    /\ thread = [t \in Threads |-> NoThread]
    /\ caller = [c \in OneCaller |-> IdleCaller]
    /\ calls = 0
    /\ calibration_data = NoCalibration
    /\ i2c = "ok"
    /\ pwm = PwmReady
    /\ servo = NoServoCall
    /\ brain = AssembledBrain
    /\ legacy = NoLegacy

SpecAssembled == InitAssembled /\ [][Next]_vars

\* The controller on a bus that may fail any write, with a calibration entry
\* that sends the left leg's logical 0 below the duties the driver accepts.
InitFaulty ==
    /\ stop_event = FALSE
    /\ movement_thread = 0
    /\ lock = [owner |-> NoOwner, count |-> 0]
    /\ obstacle_callback = "none"
    /\ board = [ch \in Channels |-> -1]
    /\ thread = [t \in Threads |-> NoThread]
    /\ caller = [c \in OneCaller |-> IdleCaller]
    /\ calls = 0
    /\ calibration_data = SERVO_LEFT_LEG_CHANNEL :> [min |-> -50]
    /\ i2c = "faulty"
    /\ pwm = PwmReady
    /\ servo = NoServoCall
    /\ brain = NoBrain
    /\ legacy = NoLegacy

SpecFaulty == InitFaulty /\ [][Next]_vars

\* ------------------------------------------------------------------------
\* Specification: one direct call of move_servo (as the calibration tool
\* makes it) on a controller with a calibration table, over a bus that may
\* fail
\* ------------------------------------------------------------------------
\* channel numbers passed to move_servo: the servos and the number after
ServoChannels == 0..(SERVO_RIGHT_FOOT_CHANNEL + 1)

InitServo ==
    /\ stop_event = FALSE
    /\ movement_thread = 0
    /\ lock = [owner |-> NoOwner, count |-> 0]
    /\ obstacle_callback = "none"
    /\ board = [ch \in Channels |-> -1]
    /\ thread = [t \in Threads |-> NoThread]
    /\ caller = [c \in OneCaller |-> IdleCaller]
    /\ calls = 0
    /\ calibration_data \in CalibrationTables
    /\ i2c = "faulty"
    /\ pwm = PwmReady
    /\ servo = NoServoCall
    /\ brain = NoBrain
    /\ legacy = NoLegacy

\* one call per behaviour: move_servo(channel, angle), the bus answering bus
MoveServoCall ==
    /\ servo.op = "none"
    /\ \E channel \in ServoChannels, angle \in Angles, bus \in BusOutcomes :
          /\ move_servo(channel, angle, bus)
          /\ servo' = [op |-> "move_servo", channel |-> channel,
                       angle |-> angle, bus |-> bus,
                       mapped_angle |-> Moved(channel, angle, bus).mapped_angle,
                       calls |-> Moved(channel, angle, bus).calls,
                       returned |-> IF Moved(channel, angle, bus).raised
                                    THEN "raised" ELSE "ok"]
    /\ UNCHANGED <<stop_event, movement_thread, lock, obstacle_callback,
                   thread, caller, calls, legacy, calibration_data, i2c, brain>>

NextServo == MoveServoCall

SpecServo == InitServo /\ [][NextServo]_vars

\* ------------------------------------------------------------------------
\* Specification: the brain assembling the controller and the sensors, and
\* the obstacle predicate it installs
\* ------------------------------------------------------------------------
\* Distances are in hundredths of a centimetre (measure_distance rounds to
\* two decimals): -1.0 on a timeout, -2.0 on an error, 50.0 without GPIO.
TimeoutReading == -100
ErrorReading == -200
MockReading == 5000

\* the largest distance a working sensor is taken to report
MaxReading == 600

\* "if 0 < dist < 5" (centimetres)
ObstacleThreshold == 5

\* measure_distance: what a call can return
Readings == {TimeoutReading, ErrorReading, MockReading} \cup 0..MaxReading

\* A construction that goes on when begin() has reported failure.
MovementControllerUnchecked(begin_ok) ==
    [raised |-> FALSE,
     pwm |-> [pwm EXCEPT !.begin = IF begin_ok THEN "ok" ELSE "failed",
                         !.enabled = TRUE, !.freq = 50]]

\* MovementController(): begin() reporting failure raises before PWM is
\* enabled and its frequency set
MovementController(begin_ok) ==
    IF ~begin_ok THEN [raised |-> TRUE, pwm |-> [pwm EXCEPT !.begin = "failed"]]
    ELSE [raised |-> FALSE,
          pwm |-> [pwm EXCEPT !.begin = "ok", !.enabled = TRUE, !.freq = 50]]

InitBrain ==
    /\ stop_event = FALSE
    /\ movement_thread = 0
    /\ lock = [owner |-> NoOwner, count |-> 0]
    /\ obstacle_callback = "none"
    /\ board = [ch \in Channels |-> -1]
    /\ thread = [t \in Threads |-> NoThread]
    /\ caller = [c \in OneCaller |-> IdleCaller]
    /\ calls = 0
    /\ calibration_data = NoCalibration
    /\ i2c = "ok"
    /\ pwm = PwmOff
    /\ servo = NoServoCall
    /\ brain = NoBrain
    /\ legacy = NoLegacy

\* RobotBrain.initialize: an error while assembling is caught and answered
\* with False; otherwise the brain is initialized and installs check_obstacle
initialize(begin_ok) ==
    /\ ~brain.initialized
    /\ pwm' = MovementController(begin_ok).pwm
    /\ IF MovementController(begin_ok).raised
       THEN /\ brain' = [brain EXCEPT !.returned = "false"]
            /\ UNCHANGED obstacle_callback
       ELSE /\ brain' = [brain EXCEPT !.movement = "controller",
                                      !.sensors = "manager",
                                      !.initialized = TRUE,
                                      !.returned = "true"]
            /\ obstacle_callback' = "sensor"
    /\ UNCHANGED <<stop_event, movement_thread, lock, board, thread, caller,
                   calls, legacy, calibration_data, i2c, servo>>

\* check_obstacle, called as the installed predicate: one distance sample
check_obstacle(dist) ==
    /\ brain.movement = "controller"
    /\ obstacle_callback = "sensor"
    /\ brain' = [brain EXCEPT
          !.checked = TRUE,
          !.sample = dist,
          !.answer = IF brain.sensors = "none" THEN FALSE
                     ELSE 0 < dist /\ dist < ObstacleThreshold * 100]
    /\ UNCHANGED <<stop_event, movement_thread, lock, obstacle_callback, board,
                   thread, caller, calls, legacy, calibration_data, i2c, pwm, servo>>

NextBrain ==
    \/ \E begin_ok \in BOOLEAN : initialize(begin_ok)
    \/ \E dist \in Readings : check_obstacle(dist)

SpecBrain == InitBrain /\ [][NextBrain]_vars

\* ------------------------------------------------------------------------
\* The brain's command layer in front of the controller
\* ------------------------------------------------------------------------
\* Command texts a front end sends.
Commands == {"Walk ", "run", "rotateleft", "stop", "hello", "dance",
             "distance"}

\* command.lower().strip() on those texts
lower_strip == [command \in Commands |->
                   IF command = "Walk " THEN "walk" ELSE command]

\* the handlers dict: the controller operation behind each name and the
\* message returned once it is done
handlers ==
    [cmd \in {"stop", "walk", "run", "hello", "rest", "reset", "stepback",
              "runback", "rotateleft", "rotateright", "turnleft_step",
              "turnright_step"} |->
        CASE cmd = "stop" -> [op |-> "stop", gait |-> "none", msg |-> "Stopped."]
          [] cmd = "walk" -> [op |-> "start", gait |-> "walk", msg |-> "Walking"]
          [] cmd = "run" -> [op |-> "start", gait |-> "run", msg |-> "Running"]
          [] cmd = "hello" -> [op |-> "hello", gait |-> "none", msg |-> "Waving hello."]
          [] cmd = "rest" -> [op |-> "rest", gait |-> "none", msg |-> "Resting."]
          [] cmd = "reset" -> [op |-> "reset", gait |-> "none", msg |-> "Reset to stand."]
          [] cmd = "stepback" -> [op |-> "start", gait |-> "stepback", msg |-> "Stepping back"]
          [] cmd = "runback" -> [op |-> "start", gait |-> "runback", msg |-> "Running back"]
          [] cmd = "rotateleft" -> [op |-> "start", gait |-> "rotate_left", msg |-> "Rotating left"]
          [] cmd = "rotateright" -> [op |-> "start", gait |-> "rotate_right", msg |-> "Rotating right"]
          [] cmd = "turnleft_step" -> [op |-> "turn_left_step", gait |-> "none", msg |-> "Turning left (step)."]
          [] cmd = "turnright_step" -> [op |-> "turn_right_step", gait |-> "none", msg |-> "Turning right (step)."]]

\* a return that calls nothing; the brain record keeps the command's text
\* and the message it answers
Answer(c, command, msg) ==
    /\ ~Busy(c)
    /\ brain' = [brain EXCEPT !.command = command, !.reply = msg]
    /\ UNCHANGED <<stop_event, movement_thread, lock, obstacle_callback, board,
                   thread, caller, calls, legacy, calibration_data, i2c, pwm, servo>>

\* handlers[cmd](): the controller operation is called
Handle(c, command, h, speed) ==
    /\ h.op = "start" => \E t \in Threads : Free(t)
    /\ (h.op = "start" \/ h.op \in TurnSteps) => SameTier(speed)
    /\ CallFrame(c, h.op, h.gait,
                 IF h.op = "start" \/ h.op \in TurnSteps THEN speed ELSE "none")
    /\ brain' = [brain EXCEPT !.command = command, !.reply = h.msg]
    /\ UNCHANGED <<legacy, calibration_data, i2c, servo>>

\* An execute_command that stops the robot on a name it does not know.
execute_command_stopping_on_unknown(c, command, speed) ==
    IF ~brain.initialized \/ brain.movement = "none"
    THEN Answer(c, command, "Error: Robot not initialized.")
    ELSE IF lower_strip[command] \in DOMAIN handlers
    THEN Handle(c, command, handlers[lower_strip[command]], speed)
    ELSE IF lower_strip[command] = "distance"
    THEN Answer(c, command, IF brain.sensors # "none" THEN "Distance"
                            ELSE "Error: Sensors not available.")
    ELSE Handle(c, command, handlers["stop"], speed)

\* RobotBrain.execute_command(command, {'speed': speed})
execute_command(c, command, speed) ==
    IF ~brain.initialized \/ brain.movement = "none"
    THEN Answer(c, command, "Error: Robot not initialized.")
    ELSE IF lower_strip[command] \in DOMAIN handlers
    THEN Handle(c, command, handlers[lower_strip[command]], speed)
    ELSE IF lower_strip[command] = "distance"
    THEN Answer(c, command, IF brain.sensors # "none" THEN "Distance"
                            ELSE "Error: Sensors not available.")
    ELSE Answer(c, command, "Unknown command")

\* RobotBrain.shutdown(): with no controller only the flag is written
CallShutdown(c) ==
    IF brain.movement = "none"
    THEN /\ ~Busy(c)
         /\ brain' = [brain EXCEPT !.initialized = FALSE]
         /\ UNCHANGED <<stop_event, movement_thread, lock, obstacle_callback,
                        board, thread, caller, calls, legacy, calibration_data, i2c,
                        pwm, servo>>
    ELSE Call(c, "shutdown", "none", "none")

\* self._initialized = False
BrainUninitialize(c) ==
    /\ CallerAt(c, "uninit")
    /\ brain' = [brain EXCEPT !.initialized = FALSE]
    /\ CallerNext(c, <<>>)
    /\ UNCHANGED <<stop_event, movement_thread, lock, obstacle_callback, board,
                   thread, calls, legacy, calibration_data, i2c, pwm, servo>>

\* the brain is assembled once: initialize() runs on a brain that has no
\* controller yet
NextCommands ==
    \/ \E begin_ok \in BOOLEAN :
           brain.movement = "none" /\ initialize(begin_ok)
    \/ \E c \in OneCaller : \E command \in Commands :
           execute_command(c, command, DefaultSpeed)
    \/ \E c \in OneCaller : CallShutdown(c)
    \/ \E c \in OneCaller : BrainUninitialize(c)
    \/ \E c \in OneCaller : CallerProgress(c)
    \/ \E t \in Threads : GaitStep(t)

SpecCommands == InitBrain /\ [][NextCommands]_vars

\* ------------------------------------------------------------------------
\* The legacy core: ninja_core.execute_action, its distance checker and the
\* movement threads of Ninja_Movements_v1
\* ------------------------------------------------------------------------
DISTANCE_THRESHOLD_CM == 15

ForwardMoves == {"walk", "run"}

\* the controller of src/ninja_robot plays no part in the legacy core
Modern == <<stop_event, movement_thread, lock, obstacle_callback, board,
            thread, caller, calls, calibration_data, i2c, pwm, servo, brain>>

MoverAlive(t) == legacy.mover[t].pc \in {"moving", "checking"}
CheckerAlive(k) == legacy.checker[k].pc \notin {"none", "dead"}
\* the step after p1..p5 (stop the previous movement) and t1..t5 (stop)
MainAfter ==
    [pc \in {"p1", "p2", "p3", "p4", "p5", "t1", "t2", "t3", "t4", "t5"} |->
        CASE pc = "p1" -> "p2" [] pc = "p2" -> "p3" [] pc = "p3" -> "p4"
          [] pc = "p4" -> "p5" [] pc = "p5" -> "s1"
          [] pc = "t1" -> "t2" [] pc = "t2" -> "t3" [] pc = "t3" -> "t4"
          [] pc = "t4" -> "t5" [] pc = "t5" -> "idle"]

\* execute_action({'type': 'move', 'move_function': move}): a continuous move
\* stops the previous one first if is_continuous_moving, "stop" stops
execute_action(move) ==
    /\ legacy.main.pc \in {"idle"}
    /\ legacy.actions < MaxActions
    /\ legacy' = [legacy EXCEPT
          !.actions = @ + 1,
          !.main = [move |-> move,
                    pc |-> IF move = "stop" THEN "t1"
                           ELSE IF legacy.is_continuous_moving THEN "p1"
                           ELSE "s1"]]
    /\ UNCHANGED Modern

\* keep_distance_checking = False
MainClearKeep ==
    /\ legacy.main.pc \in {"p1", "t1"}
    /\ legacy' = [legacy EXCEPT !.keep_distance_checking = FALSE,
                                !.main.pc = MainAfter[legacy.main.pc]]
    /\ UNCHANGED Modern

\* if distance_check_thread and distance_check_thread.is_alive():
\*     distance_check_thread.join(timeout=0.5)
\* (the wait ends when the checker has exited or the half second is over;
\* distance_check_thread = None follows when a previous movement is stopped)
MainJoinChecker ==
    /\ legacy.main.pc \in {"p2", "t2"}
    /\ legacy' = [legacy EXCEPT
          !.distance_check_thread = IF legacy.main.pc = "p2" THEN 0 ELSE @,
          !.main.pc = MainAfter[legacy.main.pc]]
    /\ UNCHANGED Modern

\* movements.stop(): stop_movement = True, then the servos are reset
MainStop ==
    /\ legacy.main.pc \in {"p3", "t3"}
    /\ legacy' = [legacy EXCEPT !.stop_movement = TRUE,
                                !.main.pc = MainAfter[legacy.main.pc]]
    /\ UNCHANGED Modern

\* if movement_thread and movement_thread.is_alive():
\*     movement_thread.join(timeout=1.0)
\* (the wait ends when the thread has exited or the second is over)
MainJoinMover ==
    /\ legacy.main.pc \in {"p4", "t4"}
    /\ legacy' = [legacy EXCEPT !.main.pc = MainAfter[legacy.main.pc]]
    /\ UNCHANGED Modern

\* movement_thread = None (stopping the previous movement only);
\* is_continuous_moving = False
MainNotMoving ==
    /\ legacy.main.pc \in {"p5", "t5"}
    /\ legacy' = [legacy EXCEPT
          !.movement_thread = IF legacy.main.pc = "p5" THEN 0 ELSE @,
          !.is_continuous_moving = FALSE,
          !.main.pc = MainAfter[legacy.main.pc]]
    /\ UNCHANGED Modern

\* if not is_continuous_moving: is_continuous_moving = True;
\* movements.stop_movement = False      else: a warning
MainBegin ==
    /\ legacy.main.pc \in {"s1"}
    /\ legacy' = IF ~legacy.is_continuous_moving
                 THEN [legacy EXCEPT !.is_continuous_moving = TRUE,
                                     !.stop_movement = FALSE,
                                     !.main.pc = "s2"]
                 ELSE [legacy EXCEPT !.main.pc = "idle"]
    /\ UNCHANGED Modern

\* movement_thread = Thread(target=target_func, ...); movement_thread.start()
\* walk and stepback test the flag first, the wheel moves lower the robot
\* before their loop
MainStartMover ==
    /\ legacy.main.pc \in {"s2"}
    /\ \E t \in 1..MaxMovers :
          /\ ~MoverAlive(t)
          /\ \A u \in 1..MaxMovers : u < t => MoverAlive(u)
          /\ legacy' = [legacy EXCEPT
                !.mover[t] = [func |-> legacy.main.move,
                              pc |-> IF legacy.main.move \in {"walk", "stepback"}
                                     THEN "checking" ELSE "moving",
                              stopped |-> FALSE],
                !.movement_thread = t,
                !.main.pc = "s3"]
    /\ UNCHANGED Modern

\* if move_func_name in ["walk", "run"]: keep_distance_checking = True;
\* the checker thread is started        else: keep_distance_checking = False
MainStartChecker ==
    /\ legacy.main.pc \in {"s3"}
    /\ IF legacy.main.move \in ForwardMoves
       THEN \E k \in 1..MaxCheckers :
              /\ ~CheckerAlive(k)
              /\ \A j \in 1..MaxCheckers : j < k => CheckerAlive(j)
              /\ legacy' = [legacy EXCEPT
                    !.keep_distance_checking = TRUE,
                    !.checker[k] = [for |-> legacy.main.move, pc |-> "top",
                                    dist |-> 0],
                    !.distance_check_thread = k,
                    !.main.pc = "idle"]
       ELSE legacy' = [legacy EXCEPT !.keep_distance_checking = FALSE,
                                     !.main.pc = "idle"]
    /\ UNCHANGED Modern

\* the movement function: servo.move(...); time.sleep(...)
MoverMove(t) ==
    /\ legacy.mover[t].pc = "moving"
    /\ legacy' = [legacy EXCEPT !.mover[t].pc = "checking"]
    /\ UNCHANGED Modern

\* while not stop_movement:  /  if stop_movement: break; after the loop the
\* servos are reset and the thread ends
MoverCheck(t) ==
    /\ legacy.mover[t].pc = "checking"
    /\ legacy' = [legacy EXCEPT
          !.mover[t].pc = IF legacy.stop_movement THEN "dead" ELSE "moving"]
    /\ UNCHANGED Modern

\* while keep_distance_checking:
\*     if not is_continuous_moving or movements.stop_movement: break
CheckerLoop(k) ==
    /\ legacy.checker[k].pc = "top"
    /\ legacy' = [legacy EXCEPT
          !.checker[k].pc =
              IF /\ legacy.keep_distance_checking
                 /\ legacy.is_continuous_moving
                 /\ ~legacy.stop_movement
              THEN "measure" ELSE "end"]
    /\ UNCHANGED Modern

\* dist = distance.measure_distance(), which answers -2 on a GPIO error, -1
\* on a timeout, else centimetres; -2 breaks, a valid reading below the
\* threshold is an obstacle, anything else sleeps 0.15 s and loops
CheckerMeasure(k, dist) ==
    /\ legacy.checker[k].pc = "measure"
    /\ legacy' = [legacy EXCEPT
          !.checker[k].dist = dist,
          !.checker[k].pc =
              IF dist = -2 THEN "end"
              ELSE IF dist # -1 /\ 0 <= dist /\ dist < DISTANCE_THRESHOLD_CM
              THEN "near"
              ELSE "top"]
    /\ UNCHANGED Modern

\* the warning sound, then: if is_continuous_moving:
CheckerSeesMoving(k) ==
    /\ legacy.checker[k].pc = "near"
    /\ legacy' = [legacy EXCEPT
          !.checker[k].pc = IF legacy.is_continuous_moving THEN "stop"
                            ELSE "end"]
    /\ UNCHANGED Modern

\* movements.stop(): stop_movement = True, then the servos are reset; the
\* movement threads alive at that moment are the ones it stops
CheckerStop(k) ==
    /\ legacy.checker[k].pc = "stop"
    /\ legacy' = [legacy EXCEPT
          !.stop_movement = TRUE,
          !.mover = [t \in 1..MaxMovers |->
                        IF MoverAlive(t)
                        THEN [legacy.mover[t] EXCEPT !.stopped = TRUE]
                        ELSE legacy.mover[t]],
          !.checker[k].pc = "stopped"]
    /\ UNCHANGED Modern

\* is_continuous_moving = False; break
CheckerNotMoving(k) ==
    /\ legacy.checker[k].pc = "stopped"
    /\ legacy' = [legacy EXCEPT !.is_continuous_moving = FALSE,
                                !.checker[k].pc = "end"]
    /\ UNCHANGED Modern

\* keep_distance_checking = False, and the checker thread ends
CheckerExit(k) ==
    /\ legacy.checker[k].pc = "end"
    /\ legacy' = [legacy EXCEPT !.keep_distance_checking = FALSE,
                                !.checker[k].pc = "dead"]
    /\ UNCHANGED Modern

NextLegacy ==
    \/ \E move \in {"walk", "stepback", "run", "runback", "rotateleft",
                    "rotateright", "stop"} : execute_action(move)
    \/ MainClearKeep
    \/ MainJoinChecker
    \/ MainStop
    \/ MainJoinMover
    \/ MainNotMoving
    \/ MainBegin
    \/ MainStartMover
    \/ MainStartChecker
    \/ \E t \in 1..MaxMovers : MoverMove(t)
    \/ \E t \in 1..MaxMovers : MoverCheck(t)
    \/ \E k \in 1..MaxCheckers : CheckerLoop(k)
    \/ \E k \in 1..MaxCheckers : \E dist \in {-2, -1, 0, 14, 15, 40} :
           CheckerMeasure(k, dist)
    \/ \E k \in 1..MaxCheckers : CheckerSeesMoving(k)
    \/ \E k \in 1..MaxCheckers : CheckerStop(k)
    \/ \E k \in 1..MaxCheckers : CheckerNotMoving(k)
    \/ \E k \in 1..MaxCheckers : CheckerExit(k)

SpecLegacy == Init /\ [][NextLegacy]_vars

\* ------------------------------------------------------------------------
\* Properties
\* ------------------------------------------------------------------------
Stand == [ch \in Channels |-> 90]

\* the reset of an operation's log: 90 to the four channels, in channel order
ResetWrites ==
    <<Ev("w", SERVO_LEFT_LEG_CHANNEL, 90), Ev("w", SERVO_RIGHT_LEG_CHANNEL, 90),
      Ev("w", SERVO_LEFT_FOOT_CHANNEL, 90), Ev("w", SERVO_RIGHT_FOOT_CHANNEL, 90)>>

\* thread t is on the last step of the reset that ends its loop
OnObstacleExit(t) ==
    /\ Alive(t)
    /\ ThreadIns(t).fn = "reset_servos"
    /\ thread[t].pc + ThreadIns(t).nx > Len(ThreadProgram(t))

\* C1: at most one gait-loop thread is alive in every reachable state, also
\* when the bounded join inside stop() expires before the old thread exited.
C1_AtMostOneGaitThreadAlive == Cardinality(AliveThreads) <= 1

\* C2: once the thread of the gait started last has been launched, every
\* servo write issued by a gait thread is issued by that thread; no write of
\* an earlier gait's loop occurs after the launch.
C2_OnlyLatestGaitWrites ==
    [][\A t \in Threads :
          (/\ MovementThreadAlive
           /\ ThreadAt(t, "w")
           /\ thread'[t].pc # thread[t].pc) => t = movement_thread]_vars

\* C3: when a stop() called while a gait thread was alive has returned, no
\* gait thread is alive and the last commanded angle of all four channels
\* is 90.
C3_StopMidGaitEndsIdleAtStand ==
    \A c \in Callers :
        (Returned(c) /\ caller[c].op = "stop" /\ caller[c].snap = <<>>) =>
            (AliveThreads = {} /\ board = Stand)

\* C4: with a predicate that returns true installed, a gait thread of any of
\* the six gaits begins at most one further loop iteration, and the reset
\* that ends its loop leaves all four channels at 90.
C4_ObstacleTripEndsEveryGait ==
    \A t \in Threads :
        /\ thread[t].tops <= 1
        /\ (OnObstacleExit(t) /\ ThreadIns(t).op = "rel") => board = Stand

\* C5: with the always-true predicate installed, a run("fast") thread begins
\* at most one loop iteration and issues at most one foot-write pair outside
\* the reset; having begun the iteration it is on the path that resets to
\* stand and leaves the loop.
C5_RunFastStopsInFirstIteration ==
    \A t \in Threads :
        (thread[t].gait = "run" /\ thread[t].speed = "fast") =>
            /\ thread[t].tops <= 1
            /\ thread[t].pairs <= 1
            /\ (Alive(t) /\ thread[t].tops = 1) =>
                  (\/ ThreadIns(t).op \in {"obsg", "obsc"}
                   \/ ThreadIns(t).fn = "reset_servos")
            /\ (OnObstacleExit(t) /\ ThreadIns(t).op = "rel") => board = Stand

C5_Witness ==
    \E t \in Threads :
        /\ thread[t].gait = "run" /\ thread[t].speed = "fast"
        /\ obstacle_callback = "always"
        /\ thread[t].tops = 1
        /\ thread[t].pairs = 0
        /\ OnObstacleExit(t) /\ ThreadIns(t).op = "rel"
        /\ board = Stand

\* C6: a stop() called with no gait thread alive returns with all four
\* channels at 90, no gait thread alive, the event set and the lock free,
\* and leaves the thread handle and the callback alone; called in the state
\* a stop() left, it leaves exactly that state.
C6_StopIdempotentWhenIdle ==
    \A c \in Callers :
        (Returned(c) /\ caller[c].op = "stop" /\ caller[c].snap # <<>>) =>
            /\ board = Stand
            /\ AliveThreads = {}
            /\ stop_event
            /\ lock.owner = NoOwner
            /\ movement_thread = caller[c].snap[3]
            /\ obstacle_callback = caller[c].snap[4]
            /\ (caller[c].snap[1] = Stand /\ caller[c].snap[2]) =>
                  <<board, stop_event, movement_thread, obstacle_callback>>
                      = caller[c].snap

C6_Witness ==
    \E c \in Callers :
        /\ Returned(c) /\ caller[c].op = "stop" /\ caller[c].snap # <<>>
        /\ caller[c].snap[1] = Stand /\ caller[c].snap[2]
        /\ board = Stand

\* C7: every execution of the stop protocol that has returned, whether its
\* join found the thread gone or expired, wrote 90 to all four channels
\* after the wait.
C7_ResetFollowsJoinEitherWay ==
    \A c \in Callers :
        (Returned(c) /\ caller[c].op # "reset") =>
            /\ Len(caller[c].log) >= 6
            /\ caller[c].log[1].e = "set"
            /\ caller[c].log[2].e \in {"joined", "timeout"}
            /\ SubSeq(caller[c].log, 3, 6) = ResetWrites

C7_Witness ==
    \E c \in Callers :
        /\ Returned(c) /\ caller[c].op = "stop"
        /\ caller[c].log[2].e = "timeout"
        /\ SubSeq(caller[c].log, 3, 6) = ResetWrites
        /\ MovementThreadAlive

\* C8: while a gait thread that was alive when stop() set the event has not
\* yet checked the event, the event stays set.
C8_SignalKeptUntilRead == \A t \in Threads : thread[t].owed => stop_event

\* C9: a gait start does, in this order: set, join, the four reset writes,
\* clear, create, launch; the thread it creates is not alive before the
\* launch; once the start has returned the event is clear and the thread
\* handle is the thread it launched.
C9_StartOrder ==
    \A c \in Callers :
        caller[c].op = "start" =>
            LET log == caller[c].log
                order == <<{"set"}, {"joined", "timeout"}, {"w"}, {"w"}, {"w"},
                           {"w"}, {"clear"}, {"new"}, {"start"}>>
            IN /\ Len(log) <= Len(order)
               /\ \A i \in 1..Len(log) : log[i].e \in order[i]
               /\ Len(log) >= 6 => SubSeq(log, 3, 6) = ResetWrites
               /\ Len(log) = 8 => ~Alive(log[8].ch)
               /\ Returned(c) =>
                     /\ Len(log) = Len(order)
                     /\ ~stop_event
                     /\ movement_thread = log[9].ch

C9_Witness ==
    \E c \in Callers :
        /\ Returned(c) /\ caller[c].op = "start"
        /\ caller[c].snap = <<>>
        /\ caller[c].log[2].e = "joined"
        /\ thread[movement_thread].pc = 1
        /\ ~stop_event

\* C10: the obstacle check of an iteration calls one installed predicate:
\* at the call the callback is a predicate, the one the guard read or the
\* one that replaced it, and the outcome of the check is an answer of that
\* predicate.
C10_CheckCallsOneInstalledPredicate ==
    /\ [](\A t \in Threads :
            ThreadAt(t, "obsc") =>
                /\ thread[t].cb \in Predicates
                /\ obstacle_callback \in Predicates)
    /\ [][\A t \in Threads :
            (ThreadAt(t, "obsc") /\ thread'[t].pc # thread[t].pc) =>
                /\ obstacle_callback \in Predicates
                /\ (thread'[t].pc = thread[t].pc + 1)
                      \in Returns(obstacle_callback)]_vars

C10_Witness ==
    \E t \in Threads :
        /\ ThreadAt(t, "obsc")
        /\ thread[t].cb \in Predicates
        /\ obstacle_callback \in Predicates
        /\ thread[t].cb # obstacle_callback

\* thread t has written the first channel of a group and is about to write
\* the next
InGroup(t) ==
    /\ ThreadAt(t, "w")
    /\ thread[t].pc > 1
    /\ ThreadProgram(t)[thread[t].pc - 1].op = "w"

\* thread t / caller c takes its step
ThreadSteps(t) == thread'[t].pc # thread[t].pc
CallerSteps(c) == caller'[c].pc # caller[c].pc

\* C11: every servo write is issued by the holder of the lock; a gait
\* thread that has written the left foot (or placed the left leg at 0, 15 or
\* 90) goes on, still holding the lock and without a cancellation check, to
\* the write of the right foot (right leg); and while a thread is inside
\* such a group no other context issues a servo write.
C11_GroupWritesInOneCriticalSection ==
    /\ [](/\ \A t \in Threads :
                ThreadAt(t, "w") => lock.owner = ThreadId(t)
          /\ \A c \in Callers :
                CallerAt(c, "w") => lock.owner = CallerId(c))
    /\ [][\A t \in Threads :
            /\ (/\ ThreadAt(t, "w") /\ ThreadSteps(t)
                /\ ThreadIns(t).fn = "body"
                /\ \/ ThreadIns(t).ch = SERVO_LEFT_FOOT_CHANNEL
                   \/ /\ ThreadIns(t).ch = SERVO_LEFT_LEG_CHANNEL
                      /\ ThreadIns(t).arg \in {0, 15, 90})
               => /\ thread'[t].pc = thread[t].pc + 1
                  /\ ThreadProgram(t)[thread'[t].pc].op = "w"
                  /\ ThreadProgram(t)[thread'[t].pc].ch = ThreadIns(t).ch + 1
                  /\ lock'.owner = ThreadId(t)
            /\ InGroup(t) =>
                  /\ \A u \in Threads \ {t} :
                        ~(ThreadAt(u, "w") /\ ThreadSteps(u))
                  /\ \A c \in Callers :
                        ~(CallerAt(c, "w") /\ CallerSteps(c))]_vars

C11_Witness ==
    \E t \in Threads, c \in Callers :
        /\ InGroup(t)
        /\ ThreadIns(t).ch = SERVO_RIGHT_FOOT_CHANNEL
        /\ ThreadIns(t).fn = "body"
        /\ CallerAt(c, "acq")
        /\ lock.owner = ThreadId(t)

\* C12: hello() creates no thread, and once it has returned no gait thread
\* is alive and the last commanded angle of all four channels is 90.
C12_HelloEndsIdleAtStand ==
    \A c \in Callers :
        caller[c].op = "hello" =>
            /\ \A i \in 1..Len(caller[c].log) :
                  caller[c].log[i].e \notin {"new", "start"}
            /\ Returned(c) => (AliveThreads = {} /\ board = Stand)

\* the resting pose: left leg 0, right leg 180, both feet 90
RestPose ==
    [ch \in Channels |->
        CASE ch = SERVO_LEFT_LEG_CHANNEL -> 0
          [] ch = SERVO_RIGHT_LEG_CHANNEL -> 180
          [] OTHER -> 90]

\* C13: once rest() has returned no gait thread is alive and the last
\* commanded angles are the resting pose (no gait write follows rest's
\* writes).
C13_RestEndsIdleAtRestPose ==
    \A c \in Callers :
        (Returned(c) /\ caller[c].op = "rest") =>
            (AliveThreads = {} /\ board = RestPose)

\* the calibration points of a channel that has an entry (missing keys at
\* their defaults), and the logical angle move_servo maps
CalPoints(channel) ==
    [min |-> Get(calibration_data[channel], "min", 0),
     center |-> Get(calibration_data[channel], "center", 90),
     max |-> Get(calibration_data[channel], "max", 180)]

Calibrated == servo.op = "move_servo" /\ servo.channel \in DOMAIN calibration_data

ClampedInput ==
    IF servo.angle < 0 THEN 0 ELSE IF servo.angle > 180 THEN 180 ELSE servo.angle

\* C14: for a calibration triple with min < center < max, logical 0, 90 and
\* 180 map to min, center and max, and the mapping never decreases: the
\* mapped angle of a is at most the mapped angle of a + 1, for every a in
\* 0..179 and every channel.
C14_MapHitsCalibrationPointsAndNeverDecreases ==
    Calibrated =>
        LET cal == CalPoints(servo.channel)
        IN (cal.min < cal.center /\ cal.center < cal.max) =>
              /\ ClampedInput = 0 => servo.mapped_angle = cal.min
              /\ ClampedInput = 90 => servo.mapped_angle = cal.center
              /\ ClampedInput = 180 => servo.mapped_angle = cal.max
              /\ ClampedInput < 180 =>
                    servo.mapped_angle <= _map_angle(servo.channel, ClampedInput + 1)

C14_Witness ==
    /\ Calibrated
    /\ servo.channel = SERVO_LEFT_FOOT_CHANNEL
    /\ CalPoints(servo.channel) = [min |-> 70, center |-> 95, max |-> 150]
    /\ servo.angle = 135
    /\ servo.mapped_angle = 122

\* C15: for a calibrated channel and a logical angle other than 0, 90 and
\* 180 the mapped angle is the exact value min + (center - min) * a / 90
\* (below 90) or center + (max - center) * (a - 90) / 90 (above 90), truncated
\* toward zero, for every integer triple.
C15_InterpolationIsExactThenTruncated ==
    (Calibrated /\ ClampedInput \notin {0, 90, 180}) =>
        LET cal == CalPoints(servo.channel)
            a == ClampedInput
            ninetyfold == IF a < 90 THEN cal.min * 90 + (cal.center - cal.min) * a
                          ELSE cal.center * 90 + (cal.max - cal.center) * (a - 90)
            exact == IF ninetyfold >= 0 THEN ninetyfold \div 90
                     ELSE 0 - ((0 - ninetyfold) \div 90)
        IN servo.mapped_angle = exact

\* C16: a channel without an entry maps every logical angle to itself; an
\* entry equal to the defaults (min 0, center 90, max 180) gives the same
\* result; and an entry with missing keys maps as the entry completed with
\* the defaults does.
C16_NoEntryIsIdentityLikeTheDefaults ==
    servo.op = "move_servo" =>
        /\ ~Calibrated => servo.mapped_angle = ClampedInput
        /\ Calibrated =>
              /\ servo.mapped_angle = Mapped(CalPoints(servo.channel), ClampedInput)
              /\ CalPoints(servo.channel) = [min |-> 0, center |-> 90, max |-> 180]
                    => servo.mapped_angle = ClampedInput

\* C17: move_servo(channel, a) returns normally for every integer a and
\* makes exactly one set_pwm_duty call, to driver channel channel + 1, with
\* the duty of the calibration mapping of a clamped to 0..180.
C17_AnyAngleIsClampedAndWrittenOnce ==
    servo.op = "move_servo" =>
        /\ servo.returned = "ok"
        /\ Len(servo.calls) = 1
        /\ servo.calls[1].channel = servo.channel + 1
        /\ servo.calls[1].duty =
              _angle_to_duty(_map_angle(servo.channel, ClampedInput))

C17_Witness ==
    /\ servo.op = "move_servo"
    /\ servo.angle > 180
    /\ ~Calibrated
    /\ servo.returned = "ok"
    /\ Len(servo.calls) = 1
    /\ servo.calls[1] = [channel |-> servo.channel + 1, duty |-> 45 + 180,
                         result |-> "written"]

\* C18: when begin() reports failure the construction raises before any PWM
\* enable, frequency or duty command, no controller exists afterwards, and
\* initialize() returns false with the brain left uninitialized.
C18_BoardFailureFailsConstruction ==
    pwm.begin = "failed" =>
        /\ ~pwm.enabled /\ pwm.freq = 0 /\ pwm.result = "none"
        /\ brain.movement = "none"
        /\ obstacle_callback = "none"
        /\ brain.returned = "false"
        /\ ~brain.initialized

C18_Witness ==
    /\ pwm.begin = "failed"
    /\ ~pwm.enabled
    /\ brain.returned = "false"
    /\ ~brain.initialized

\* C19: the predicate the brain installs returns true exactly when the
\* sample is a valid reading (neither the timeout nor the error value) below
\* the threshold of 5 cm; for a timeout or an error it returns false.
C19_PredicateTrueIffValidAndBelowThreshold ==
    brain.checked =>
        (brain.answer <=>
            /\ brain.sample \notin {TimeoutReading, ErrorReading}
            /\ brain.sample < ObstacleThreshold * 100)

\* C20: a servo write whose board call fails (an I2C error, or a duty the
\* driver rejects) changes nothing but the board's record of the call:
\* move_servo returns to the operation or gait loop that made it, which goes
\* on to its next step, and the cancellation signal, the gait thread, the
\* lock and the calibration table are as before.
C20_FailedWriteIsAbsorbed ==
    [][/\ \A t \in Threads :
            (ThreadAt(t, "w") /\ ThreadSteps(t) /\ pwm'.result # "written") =>
                /\ thread'[t].gait = thread[t].gait
                /\ thread'[t].pc = thread[t].pc + ThreadIns(t).nx
                /\ UNCHANGED <<stop_event, movement_thread, lock,
                               calibration_data>>
       /\ \A c \in Callers :
            (CallerAt(c, "w") /\ CallerSteps(c) /\ pwm'.result # "written") =>
                /\ caller'[c].pc = caller[c].pc + 1
                /\ UNCHANGED <<stop_event, movement_thread, lock, thread,
                               calibration_data>>]_vars

C20_Witness ==
    /\ calls = 1
    /\ \A c \in Callers : Returned(c) /\ caller[c].op = "start"
    /\ \E t \in Threads : Alive(t) /\ thread[t].pc > 1
    /\ board # [ch \in Channels |-> 90]
    /\ pwm.result = "io_error"

\* C21: a gait thread never terminates while some channel's last commanded
\* angle differs from 90: a loop that observes the cancellation signal resets
\* the servos to the stand pose itself before it exits.
C21_LoopResetsBeforeItExits ==
    [][\A t \in Threads :
          (Alive(t) /\ thread'[t].pc = 0) => board = Stand]_vars

\* C22: in every gait loop the cancellation signal is read after every sleep,
\* before the next servo write: no gait thread issues a servo write after a
\* sleep without a check of the signal in between.
C22_SignalCheckedAfterEverySleep ==
    \A t \in Threads :
        \A i \in 2..Len(thread[t].trace) :
            thread[t].trace[i].e = "w" => thread[t].trace[i - 1].e # "sleep"

\* C23: when the bounded wait of stop() has expired with the old gait thread
\* still alive, that thread issues no servo write after the four writes of
\* stop()'s reset: until the caller's next operation the stand pose written
\* by stop() is the last write on every channel.
C23_StaleThreadSilentAfterStopReset ==
    [][\A c \in Callers :
          (/\ caller[c].op = "stop"
           /\ Len(caller[c].log) = 6
           /\ caller[c].log[2] = Ev("timeout", 0, 0)
           /\ SubSeq(caller[c].log, 3, 6) = ResetWrites) =>
              \A t \in Threads : ~(ThreadAt(t, "w") /\ ThreadSteps(t))]_vars

\* C27 (as claimed): after a gait loop has stopped because the obstacle
\* predicate returned true, the cancellation signal is set.
C27_ObstacleExitSetsSignal ==
    [][\A t \in Threads :
          (OnObstacleExit(t) /\ thread'[t].pc = 0) => stop_event']_vars

\* C27: the cancellation signal is set by stop() only: the call of the
\* obstacle predicate and the reset that ends the loop after it returned true
\* leave the signal as it was, and the signal becomes set only in the step of
\* a stop() that sets it.
C27_ObstacleExitLeavesSignal ==
    [][/\ \A t \in Threads :
            (IF Alive(t)
             THEN /\ ThreadIns(t).op = "obsc" \/ ThreadIns(t).fn = "reset_servos"
                  /\ ThreadSteps(t)
             ELSE FALSE) => stop_event' = stop_event
       /\ (stop_event' /\ ~stop_event) =>
            \E c \in Callers : CallerAt(c, "set") /\ CallerSteps(c)]_vars

C27_Witness ==
    \E t \in Threads :
        /\ OnObstacleExit(t)
        /\ ThreadIns(t).op = "rel"
        /\ board = Stand
        /\ ~stop_event

\* C26: with a predicate installed, a gait loop calls it exactly once per
\* iteration, directly after the cancellation check at the top and before the
\* iteration's first servo write, and never between two phases of the
\* iteration.
C26_PredicateCalledOncePerIterationAtItsTop ==
    \A t \in Threads :
        (Alive(t) /\ Len(thread[t].trace) > 1
                  /\ thread[t].trace[1].e = "top") =>
            /\ thread[t].trace[2].e = "obs"
            /\ \A i \in 3..Len(thread[t].trace) : thread[t].trace[i].e # "obs"

\* the servo writes and sleeps of thread t's iteration so far
IterationActs(t) ==
    LET IsAct(ev) == ev.e \in {"w", "sleep"}
    IN SelectSeq(thread[t].trace, IsAct)

\* C30: a completed loop iteration of run, runback, rotate_left or
\* rotate_right is a two-phase oscillation: a pair of foot writes, a sleep, a
\* second pair of foot writes commanding different angles, and a sleep of the
\* same length; no leg channel is written inside the loop.
C30_WheelIterationIsTwoPhaseOscillation ==
    \A t \in Threads :
        (/\ Alive(t)
         /\ thread[t].gait \in {"run", "runback", "rotate_left", "rotate_right"}
         /\ ThreadIns(t) = While
         /\ thread[t].trace # <<>>
         /\ thread[t].trace[1].e = "top") =>
            LET acts == IterationActs(t)
            IN /\ Len(acts) = 6
               /\ \A i \in {1, 4} :
                    /\ acts[i].e = "w" /\ acts[i + 1].e = "w"
                    /\ {acts[i].ch, acts[i + 1].ch}
                         = {SERVO_LEFT_FOOT_CHANNEL, SERVO_RIGHT_FOOT_CHANNEL}
                    /\ acts[i + 2].e = "sleep"
               /\ acts[3].arg = acts[6].arg
               /\ <<acts[1], acts[2]>> # <<acts[4], acts[5]>>

\* C28 (as claimed): a turn step called while a gait thread is alive neither
\* sets the cancellation signal nor waits for the gait thread.
C28_TurnStepLeavesGaitAlone ==
    \A c \in Callers :
        (caller[c].op \in TurnSteps /\ caller[c].snap = <<>>) =>
            \A i \in 1..Len(caller[c].log) :
                caller[c].log[i].e \notin {"set", "joined", "timeout"}

\* C28: turn_left_step and turn_right_step begin with stop(): they set the
\* cancellation signal, wait for the gait thread (the wait ends with the
\* thread gone, or expires), and write the stand pose to the four channels
\* before the first write of their own; they create and launch no thread.
C28_TurnStepBeginsWithStop ==
    /\ [](\A c \in Callers :
            caller[c].op \in TurnSteps =>
                LET log == caller[c].log
                IN /\ caller[c].pc > 1 =>
                        (Len(log) >= 1 /\ log[1] = Ev("set", 0, 0))
                   /\ caller[c].pc > 2 =>
                        (Len(log) >= 2 /\ log[2].e \in {"joined", "timeout"})
                   /\ Len(log) > 6 => SubSeq(log, 3, 6) = ResetWrites
                   /\ \A i \in 1..Len(log) : log[i].e \notin {"new", "start"})
    /\ [][\A c \in Callers :
            (caller[c].op \in TurnSteps /\ CallerSteps(c)) =>
                /\ caller[c].pc = 1 => stop_event'
                /\ (caller[c].pc = 2 /\ ~MovementThreadAlive) =>
                      caller'[c].log[2].e = "joined"
                /\ (caller[c].pc = 2 /\ MovementThreadAlive) =>
                      caller'[c].log[2].e = "timeout"]_vars

C28_Witness ==
    \E c \in Callers :
        /\ caller[c].op \in TurnSteps
        /\ caller[c].snap = <<>>
        /\ Len(caller[c].log) = 7
        /\ caller[c].log[2].e = "joined"
        /\ AliveThreads = {}
        /\ board # Stand

\* C29: a turn step called with no gait thread alive writes, after the reset
\* of its stop(): one leg channel away from 90 (the lift), both feet to one
\* angle 30 away from 90 whatever the speed, both feet back to 90, and the
\* lifted leg back to 90; when it has returned all four channels are last
\* commanded to 90.
C29_TurnStepLiftsTurnsAndReturnsToStand ==
    \A c \in Callers :
        (Returned(c) /\ caller[c].op \in TurnSteps /\ caller[c].snap # <<>>) =>
            LET own == SubSeq(caller[c].log, 7, Len(caller[c].log))
                leg == IF caller[c].op = "turn_left_step"
                       THEN SERVO_LEFT_LEG_CHANNEL
                       ELSE SERVO_RIGHT_LEG_CHANNEL
            IN /\ Len(own) = 6
               /\ own[1].e = "w" /\ own[1].ch = leg /\ own[1].arg # 90
               /\ own[2].e = "w" /\ own[2].ch = SERVO_LEFT_FOOT_CHANNEL
               /\ own[3].e = "w" /\ own[3].ch = SERVO_RIGHT_FOOT_CHANNEL
               /\ own[2].arg = own[3].arg
               /\ own[2].arg \in {90 - 30, 90 + 30}
               /\ own[4] = Ev("w", SERVO_LEFT_FOOT_CHANNEL, 90)
               /\ own[5] = Ev("w", SERVO_RIGHT_FOOT_CHANNEL, 90)
               /\ own[6] = Ev("w", leg, 90)
               /\ board = Stand

\* caller c is in a single-shot pose, past the first servo write the pose
\* makes after its stop() and not yet past its last
BetweenPoseWrites(c) ==
    /\ Busy(c)
    /\ caller[c].op \in {"hello", "rest"} \cup TurnSteps
    /\ LET writes == {i \in (Len(stop) + 1)..Len(CallerCode(c)) :
                          CallerCode(c)[i].op = "w"}
       IN \E i, j \in writes : i < caller[c].pc /\ caller[c].pc <= j

\* C25: hello, rest, turn_left_step and turn_right_step hold the lock from
\* the first servo write of the pose to its last, and no gait thread issues a
\* servo write between two writes of the pose.
C25_PoseHoldsLockFromFirstWriteToLast ==
    /\ [](\A c \in Callers :
            BetweenPoseWrites(c) => lock.owner = CallerId(c))
    /\ [][\A c \in Callers :
            BetweenPoseWrites(c) =>
                \A t \in Threads : ~(ThreadAt(t, "w") /\ ThreadSteps(t))]_vars

\* C24: when two caller contexts start gaits concurrently there is still
\* never more than one gait thread alive, and once both calls have returned
\* the only thread running is the one recorded as the active gait.
C24_ConcurrentStartsLeaveOneGait ==
    /\ Cardinality(AliveThreads) <= 1
    /\ (\A c \in Callers : Returned(c)) => AliveThreads \subseteq {movement_thread}

\* C33: every angle a gait loop or a single-shot pose passes to move_servo
\* lies in 0..180, at every speed tier, so the clamp of move_servo leaves it
\* as it is; a speed string other than slow and fast gives the loop and the
\* turn step of the normal tier.
C33_IssuedAnglesNeedNoClamp ==
    /\ \A t \in Threads :
          ThreadAt(t, "w") =>
              /\ ThreadIns(t).arg \in 0..180
              /\ Clamp(ThreadIns(t).arg) = ThreadIns(t).arg
    /\ \A c \in Callers :
          CallerAt(c, "w") =>
              /\ CallerIns(c).arg \in 0..180
              /\ Clamp(CallerIns(c).arg) = CallerIns(c).arg
    /\ \A t \in Threads :
          (Alive(t) /\ thread[t].pc = 1 /\ thread[t].speed = "normal") =>
              GaitTarget(thread[t].gait, "other") = ThreadProgram(t)
    /\ \A c \in Callers :
          (/\ Busy(c) /\ caller[c].pc = 1 /\ caller[c].op \in TurnSteps
           /\ caller[c].speed = "normal") =>
              /\ turn_left_step("other") = turn_left_step("normal")
              /\ turn_right_step("other") = turn_right_step("normal")

C33_Witness ==
    /\ \E t \in Threads :
          /\ ThreadAt(t, "w")
          /\ thread[t].gait = "run" /\ thread[t].speed = "fast"
          /\ ThreadIns(t).arg = 130
    /\ \E c \in Callers :
          /\ Returned(c) /\ caller[c].op = "start"
    /\ board[SERVO_LEFT_LEG_CHANNEL] = 0

\* the operations that begin with stop() and start no gait
StoppingOps == {"stop", "rest", "hello"} \cup TurnSteps

\* C35: the cancellation signal is clear at construction and is cleared only
\* by the clear step of a gait start; an operation that calls stop() without
\* starting a gait has the signal set from its set step on and leaves it set
\* on return, so while the signal is clear no such operation has completed
\* since the last gait start.
C35_SignalClearedOnlyByGaitStart ==
    /\ [](/\ calls = 0 => ~stop_event
          /\ \A c \in Callers :
                (caller[c].op \in StoppingOps /\ caller[c].pc > 1) => stop_event)
    /\ [][(stop_event /\ ~stop_event') =>
            \E c \in Callers :
                /\ caller[c].op = "start"
                /\ CallerAt(c, "clear")
                /\ CallerSteps(c)]_vars

C35_Witness ==
    \E c \in Callers :
        /\ Returned(c)
        /\ caller[c].op = "rest"
        /\ caller[c].snap = <<>>
        /\ calls = 2
        /\ stop_event
        /\ AliveThreads = {}

\* C39: for a calibration entry with min <= center <= max the physical angle
\* of every logical angle lies in min..max, in min..center below logical 90
\* and in center..max above it; only the logical angle is clamped: the
\* physical angle reaches the duty computation as mapped, also outside
\* 0..180.
C39_MappedAngleStaysBetweenCalibrationPoints ==
    Calibrated =>
        LET cal == CalPoints(servo.channel)
        IN (cal.min <= cal.center /\ cal.center <= cal.max) =>
              /\ servo.mapped_angle \in cal.min..cal.max
              /\ ClampedInput < 90 => servo.mapped_angle \in cal.min..cal.center
              /\ ClampedInput > 90 => servo.mapped_angle \in cal.center..cal.max
              /\ ClampedInput = 0 => servo.mapped_angle = cal.min
              /\ ClampedInput = 180 => servo.mapped_angle = cal.max
              /\ Len(servo.calls) = 1
              /\ servo.calls[1].duty = _angle_to_duty(servo.mapped_angle)

C39_Witness ==
    /\ Calibrated
    /\ CalPoints(servo.channel) = [min |-> -50, center |-> 45, max |-> 90]
    /\ servo.angle = 0
    /\ servo.mapped_angle = -50
    /\ servo.calls = <<[channel |-> servo.channel + 1, duty |-> -5,
                        result |-> "rejected"]>>

\* C34: the "reset" command writes 90 to the four channels and nothing else:
\* none of its steps changes the cancellation signal, the thread handle, the
\* gait threads or the obstacle predicate, so a gait that is running goes on
\* and its later writes follow the reset.
C34_ResetOnlyWritesStand ==
    /\ [](\A c \in Callers :
            caller[c].op = "reset" =>
                /\ Len(caller[c].log) <= Len(ResetWrites)
                /\ \A i \in 1..Len(caller[c].log) :
                      caller[c].log[i] = ResetWrites[i]
                /\ Returned(c) => caller[c].log = ResetWrites)
    /\ [][\A c \in Callers :
            (caller[c].op = "reset" /\ Busy(c) /\ CallerSteps(c)) =>
                UNCHANGED <<stop_event, movement_thread, thread,
                            obstacle_callback>>]_vars

C34_Witness ==
    \E c \in Callers :
        /\ Returned(c)
        /\ caller[c].op = "reset"
        /\ caller[c].snap = <<>>
        /\ caller[c].log = ResetWrites
        /\ MovementThreadAlive
        /\ ~stop_event
        /\ board # Stand

\* C36: under fair scheduling a gait thread that is alive while the
\* cancellation signal is set terminates, whichever gait and phase it is in,
\* unless the signal is cleared first; and a gait thread terminates only by
\* finding the signal set at a check or by the reset after the predicate
\* answered true: with no stop and no true answer it never terminates.
C36_SetSignalEndsEveryGaitThread ==
    /\ \A t \in Threads :
          (stop_event /\ Alive(t)) ~> (~Alive(t) \/ ~stop_event)
    /\ [][\A t \in Threads :
            (Alive(t) /\ thread'[t].pc = 0) =>
                \/ stop_event /\ ThreadIns(t).op = "chk"
                \/ OnObstacleExit(t) /\ thread[t].trace # <<>>
                     /\ \E i \in 1..Len(thread[t].trace) :
                            thread[t].trace[i].e = "obs"]_vars

C36_Witness ==
    \E c \in Callers :
        /\ caller[c].op = "stop"
        /\ caller[c].snap = <<>>
        /\ Len(caller[c].log) = 2
        /\ caller[c].log[2].e = "joined"
        /\ stop_event
        /\ AliveThreads = {}
        /\ board # Stand

\* C37: callers and gait threads never deadlock: a caller waiting in join
\* (or about to set the signal) holds no lock, a context that holds the lock
\* is never itself waiting for it (the nested acquire of reset_servos goes
\* through), every holder releases the lock, and every operation a caller
\* has begun returns.
C37_NoDeadlockBetweenCallersAndGait ==
    /\ [](\A c \in Callers :
            (CallerAt(c, "join") \/ CallerAt(c, "setev")) =>
                lock.owner # CallerId(c))
    /\ [](\A c \in Callers :
            (CallerAt(c, "acq") /\ lock.owner = CallerId(c)) =>
                ENABLED CallerAcquire(c))
    /\ (lock.owner # NoOwner) ~> (lock.owner = NoOwner)
    /\ \A c \in OneCaller : Busy(c) ~> Returned(c)

C37_Witness ==
    \E c \in Callers : \E t \in Threads :
        /\ caller[c].op = "stop"
        /\ lock = [owner |-> CallerId(c), count |-> 2]
        /\ Alive(t)
        /\ ThreadAt(t, "acq")

\* C31: a command whose name, lowered and stripped, is neither a handler nor
\* "distance" is answered "Unknown command" by an initialized brain, and the
\* step that answers it leaves the controller as it was: no servo write, the
\* cancellation signal, the gait threads and the caller's last operation
\* unchanged.
C31_UnknownCommandLeavesControllerUntouched ==
    [][( /\ <<brain'.command, brain'.reply>> # <<brain.command, brain.reply>>
         /\ brain'.command \in Commands
         /\ lower_strip[brain'.command] \notin DOMAIN handlers \cup {"distance"}
         /\ brain.initialized
         /\ brain.movement # "none" )
       => /\ brain'.reply = "Unknown command"
          /\ UNCHANGED <<stop_event, movement_thread, lock, obstacle_callback,
                         board, thread, caller, calls, pwm>>]_vars

C31_Witness ==
    /\ brain.command = "dance"
    /\ brain.reply = "Unknown command"
    /\ \E t \in Threads : Alive(t) /\ thread[t].trace # <<>>
    /\ ~stop_event

\* C32: while the brain is not initialized (never initialized, initialize
\* failed, or shut down) every command is answered with the not-initialized
\* error and the step that answers it writes no servo and starts no gait; and
\* once shutdown() has returned no gait thread is alive and the servos are at
\* stand.
C32_UninitializedBrainRejectsAndShutdownStops ==
    /\ [][( /\ <<brain'.command, brain'.reply>> # <<brain.command, brain.reply>>
            /\ ~brain.initialized )
          => /\ brain'.reply = "Error: Robot not initialized."
             /\ UNCHANGED <<stop_event, movement_thread, lock, obstacle_callback,
                            board, thread, caller, calls, pwm>>]_vars
    /\ [](\A c \in Callers :
            (caller[c].op = "shutdown" /\ Returned(c)) =>
                /\ AliveThreads = {}
                /\ board = Stand)

\* C38: in the legacy core a distance checker exists only for walk and run;
\* a checker that read a valid distance in [0, threshold) and found the robot
\* moving sets the stop flag and then is_continuous_moving to False, and a
\* movement thread it stopped exits at its next test of the flag; a timeout
\* reading (-1) sends the checker back to its loop with the flags and the
\* movement threads as they were; an error reading (-2) ends the checker and
\* leaves the flags and the movement threads as they were.
C38_LegacyCheckerStopsOnlyForwardMoves ==
    /\ [](\A k \in 1..MaxCheckers :
            CheckerAlive(k) => legacy.checker[k].for \in ForwardMoves)
    /\ [][\A k \in 1..MaxCheckers :
            /\ (legacy.checker[k].pc = "measure" /\ legacy'.checker[k].pc # "measure")
               => /\ legacy'.checker[k].pc = "near"
                     <=> legacy'.checker[k].dist \in 0..(DISTANCE_THRESHOLD_CM - 1)
                  /\ legacy'.checker[k].pc = "top"
                     <=> (legacy'.checker[k].dist = -1
                          \/ legacy'.checker[k].dist >= DISTANCE_THRESHOLD_CM)
                  /\ legacy'.checker[k].pc = "end"
                     <=> legacy'.checker[k].dist = -2
                  /\ legacy'.stop_movement = legacy.stop_movement
                  /\ legacy'.is_continuous_moving = legacy.is_continuous_moving
                  /\ legacy'.mover = legacy.mover
            /\ (legacy.checker[k].pc = "stop" /\ legacy'.checker[k].pc # "stop")
               => legacy'.stop_movement
            /\ (legacy.checker[k].pc = "stopped" /\ legacy'.checker[k].pc # "stopped")
               => ~legacy'.is_continuous_moving]_vars
    /\ [][\A t \in 1..MaxMovers :
            (/\ legacy.mover[t].stopped
             /\ legacy.mover[t].pc = "checking"
             /\ legacy'.mover[t].pc # "checking")
            => legacy'.mover[t].pc = "dead"]_vars
====
